---- MODULE Spec2Model ----
(***************************************************************************)
(* Model of the sales ingestion function (functions/src/importSalesXlsx.ts) *)
(* and of the split view pos_sales_people (pos-dashboard-backend/db/        *)
(* schema.sql).                                                             *)
(*                                                                          *)
(* Strings are sequences of one-character strings, so that trim, split,    *)
(* replace and the regular expressions of the source act on characters.    *)
(***************************************************************************)
EXTENDS Integers, Sequences, FiniteSets, TLC

(***************************************************************************)
(* Characters and the JavaScript string methods the importer uses.         *)
(***************************************************************************)
UpperChars == <<"A","B","C","D","E","F","G","H","I","J","K","L","M",
                "N","O","P","Q","R","S","T","U","V","W","X","Y","Z">>

LowerChars == <<"a","b","c","d","e","f","g","h","i","j","k","l","m",
                "n","o","p","q","r","s","t","u","v","w","x","y","z">>

DigitChars == <<"0","1","2","3","4","5","6","7","8","9">>

\* \s of the regular expressions (the sample cells hold the blank only)
IsSpace(c) == c = " "

IsDigit(c) == \E i \in 1..Len(DigitChars) : DigitChars[i] = c

IsUpper(c) == \E i \in 1..Len(UpperChars) : UpperChars[i] = c

IsLower(c) == \E i \in 1..Len(LowerChars) : LowerChars[i] = c

ToLowerChar(c) ==
  IF IsUpper(c)
    THEN LowerChars[CHOOSE i \in 1..Len(UpperChars) : UpperChars[i] = c]
    ELSE c

\* String.prototype.toLowerCase
ToLowerCase(s) == [i \in 1..Len(s) |-> ToLowerChar(s[i])]

RECURSIVE TrimStart(_)
TrimStart(s) ==
  IF s # <<>> /\ IsSpace(Head(s)) THEN TrimStart(Tail(s)) ELSE s

RECURSIVE TrimEnd(_)
TrimEnd(s) ==
  IF s # <<>> /\ IsSpace(s[Len(s)]) THEN TrimEnd(SubSeq(s, 1, Len(s) - 1)) ELSE s

\* String.prototype.trim
Trim(s) == TrimEnd(TrimStart(s))

StartsWith(s, p) == Len(s) >= Len(p) /\ SubSeq(s, 1, Len(p)) = p

EndsWith(s, p) == Len(s) >= Len(p) /\ SubSeq(s, Len(s) - Len(p) + 1, Len(s)) = p

\* Index of the first occurrence of sep in s, 0 when there is none
IndexOf(s, sep) ==
  LET hits == {i \in 1..(Len(s) - Len(sep) + 1) : SubSeq(s, i, i + Len(sep) - 1) = sep}
  IN IF hits = {} THEN 0 ELSE CHOOSE i \in hits : \A j \in hits : i <= j

\* String.prototype.split with a literal, non-empty separator
RECURSIVE Split(_, _)
Split(s, sep) ==
  LET i == IndexOf(s, sep)
  IN IF i = 0
       THEN <<s>>
       ELSE <<SubSeq(s, 1, i - 1)>> \o Split(SubSeq(s, i + Len(sep), Len(s)), sep)

\* String.prototype.padStart(2, "0")
PadStart2(s) == IF Len(s) < 2 THEN <<"0">> \o s ELSE s

RECURSIVE Concat(_)
Concat(ss) == IF ss = <<>> THEN <<>> ELSE Head(ss) \o Concat(Tail(ss))

\* Number.prototype.toString for the non-negative integers of the samples
RECURSIVE NatToString(_)
NatToString(n) ==
  IF n < 10 THEN <<DigitChars[n + 1]>>
  ELSE NatToString(n \div 10) \o <<DigitChars[(n % 10) + 1]>>

DigitValue(c) == (CHOOSE i \in 1..Len(DigitChars) : DigitChars[i] = c) - 1

RECURSIVE DigitsToNat(_)
DigitsToNat(s) ==
  IF s = <<>> THEN 0
  ELSE 10 * DigitsToNat(SubSeq(s, 1, Len(s) - 1)) + DigitValue(s[Len(s)])

AllDigits(s) == \A i \in 1..Len(s) : IsDigit(s[i])

(***************************************************************************)
(* Cells of a parsed sheet (XLSX.utils.sheet_to_json with defval: null):   *)
(* null, a string, a number, or a Date.                                    *)
(***************************************************************************)
Null == [t |-> "null"]

Str(s) == [t |-> "str", s |-> s]

Num(n) == [t |-> "num", n |-> n]

\* a valid Date, given by the text toISOString() returns
DateCell(iso) == [t |-> "date", iso |-> iso]

\* JavaScript truthiness of a cell: !v holds for null, "" and 0
Falsy(v) ==
  \/ v.t = "null"
  \/ v.t = "str" /\ v.s = <<>>
  \/ v.t = "num" /\ v.n = 0

\* String(v) and v.toString() of a non-null cell
CellToString(v) ==
  CASE v.t = "str" -> v.s
    [] v.t = "num" -> NatToString(v.n)
    [] v.t = "date" -> v.iso
    [] OTHER -> <<"n","u","l","l">>

\* (v ?? dflt).toString().trim()
CoalesceTrim(v, dflt) == IF v.t = "null" THEN Trim(dflt) ELSE Trim(CellToString(v))

\* a JavaScript number: a finite number n, Infinity, or NaN
JsNum(n) == [nan |-> FALSE, inf |-> FALSE, n |-> n]

JsInfinity == [nan |-> FALSE, inf |-> TRUE, n |-> 0]

JsNaN == [nan |-> TRUE, inf |-> FALSE, n |-> 0]

\* Number(v) of a non-null cell
JsNumber(v) ==
  CASE v.t = "num" -> JsNum(v.n)
    [] v.t = "str" ->
         IF Trim(v.s) = <<>> THEN JsNum(0)
         ELSE IF AllDigits(Trim(v.s)) THEN JsNum(DigitsToNat(Trim(v.s)))
         ELSE IF Trim(v.s) = <<"I","n","f","i","n","i","t","y">> THEN JsInfinity
         ELSE JsNaN
    [] OTHER -> JsNaN

\* Number(v ?? 0) || 0
NumberOrZero(v) ==
  LET r == IF v.t = "null" THEN JsNum(0) ELSE JsNumber(v)
  IN IF r.nan \/ (~r.inf /\ r.n = 0) THEN JsNum(0) ELSE r

(***************************************************************************)
(* Helpers of importSalesXlsx.ts                                            *)
(***************************************************************************)
\* .replace(/&/g, "and")
RECURSIVE ReplaceAmp(_)
ReplaceAmp(s) ==
  IF s = <<>> THEN <<>>
  ELSE (IF Head(s) = "&" THEN <<"a","n","d">> ELSE <<Head(s)>>) \o ReplaceAmp(Tail(s))

\* .replace(/[^a-z0-9\s-]/g, "")
KeepSlugChars(s) ==
  SelectSeq(s, LAMBDA c : IsLower(c) \/ IsDigit(c) \/ IsSpace(c) \/ c = "-")

\* a faulty variant: every space and hyphen becomes a hyphen of its own
CollapseRuns_Each(s) ==
  [i \in 1..Len(s) |-> IF IsSpace(s[i]) THEN "-" ELSE s[i]]

\* .replace(/[\s-]+/g, "-")
RECURSIVE CollapseRuns(_)
CollapseRuns(s) ==
  IF s = <<>> THEN <<>>
  ELSE IF IsSpace(Head(s)) \/ Head(s) = "-"
    THEN IF Len(s) > 1 /\ (IsSpace(s[2]) \/ s[2] = "-")
           THEN CollapseRuns(Tail(s))
           ELSE <<"-">> \o CollapseRuns(Tail(s))
    ELSE <<Head(s)>> \o CollapseRuns(Tail(s))

\* .replace(/(^-|-$)/g, "")
StripEdgeHyphen(s) ==
  LET a == IF s # <<>> /\ Head(s) = "-" THEN Tail(s) ELSE s
  IN IF a # <<>> /\ a[Len(a)] = "-" THEN SubSeq(a, 1, Len(a) - 1) ELSE a

slugify(s) ==
  IF s = <<>> THEN <<>>
  ELSE StripEdgeHyphen(CollapseRuns(KeepSlugChars(ReplaceAmp(Trim(ToLowerCase(s))))))

\* /^(\d{1,2})\/(\d{1,2})\/(\d{4})$/
MatchesMDY(s) ==
  LET p == Split(s, <<"/">>)
  IN /\ Len(p) = 3
     /\ \A i \in 1..3 : AllDigits(p[i])
     /\ Len(p[1]) \in 1..2
     /\ Len(p[2]) \in 1..2
     /\ Len(p[3]) = 4

\* the date as YYYY-MM-DD, or Null
ymdFromExcelDate(v) ==
  IF Falsy(v) THEN Null
  ELSE IF v.t = "date" THEN Str(SubSeq(v.iso, 1, 10))
  ELSE LET s == Trim(CellToString(v))
           p == Split(s, <<"/">>)
       IN IF ~MatchesMDY(s) THEN Null
          ELSE Str(p[3] \o <<"-">> \o PadStart2(p[1]) \o <<"-">> \o PadStart2(p[2]))

\* /^sales\//i.test(filePath)
isSalesFolder(filePath) == StartsWith(ToLowerCase(filePath), <<"s","a","l","e","s","/">>)

\* lower.endsWith(".xlsx") || lower.endsWith(".xls")
IsExcelName(filePath) ==
  \/ EndsWith(ToLowerCase(filePath), <<".","x","l","s","x">>)
  \/ EndsWith(ToLowerCase(filePath), <<".","x","l","s">>)

\* a faulty variant: the identifier is used as the key as it is
toSafeDocId_Unchanged(id) == id

\* id.replace(/\//g, "-")
toSafeDocId(id) == [i \in 1..Len(id) |-> IF id[i] = "/" THEN "-" ELSE id[i]]

MAX_BATCH_OPS == 450

(***************************************************************************)
(* Sample rows of a sheet.  A row maps the recognised headers to cells:    *)
(* date = "Date of Sale", loc = "Sales Location", person = "Sales Person", *)
(* id = "Sales#", total = "Grand Total", cost = "Cost", fee = "Finance     *)
(* Fee", profit = "Profit".                                                *)
(***************************************************************************)
RowNames == {"rA", "rB", "rC", "rD", "rE", "rF", "rG"}

SampleRow(name) ==
  CASE name = "rA" ->
         [date |-> Str(<<"1","/","5","/","2","0","2","4">>),
          loc |-> Str(<<"M","a","i","n"," ","S","t">>),
          person |-> Str(<<"A","l","i","c","e"," ","A","N","D"," ","B","o","b">>),
          id |-> Str(<<"S","1">>),
          total |-> Num(100), cost |-> Num(60), fee |-> Num(5), profit |-> Num(20)]
    [] name = "rB" ->
         \* the same Sales# on another day, the same store written differently
         [date |-> Str(<<"0","1","/","0","6","/","2","0","2","4">>),
          loc |-> Str(<<" ","m","a","i","n"," "," ","s","t"," ">>),
          person |-> Null,
          id |-> Str(<<"S","1">>),
          total |-> Str(<<"2","5","0">>), cost |-> Null,
          fee |-> Str(<<"n","/","a">>), profit |-> Num(50)]
    [] name = "rC" ->
         [date |-> DateCell(<<"2","0","2","4","-","0","2","-","0","1","T","0","0",":","0","0","Z">>),
          loc |-> Str(<<"B"," ","&"," ","B">>),
          person |-> Str(<<>>),
          id |-> Str(<<"A","/","1">>),
          total |-> Num(40), cost |-> Num(30), fee |-> Null, profit |-> Num(10)]
    [] name = "rD" ->
         \* a store name whose slug is empty
         [date |-> Str(<<"2","/","1","/","2","0","2","4">>),
          loc |-> Str(<<"!","!">>),
          person |-> Str(<<"C","y">>),
          id |-> Str(<<"A","-","1">>),
          total |-> Num(0), cost |-> Str(<<"I","n","f","i","n","i","t","y">>),
          fee |-> Num(0), profit |-> Num(0)]
    [] name = "rE" ->
         \* a date that is not MM/DD/YYYY
         [date |-> Str(<<"2","0","2","4","-","0","1","-","0","5">>),
          loc |-> Str(<<"M","a","i","n"," ","S","t">>),
          person |-> Str(<<"B","o","b">>),
          id |-> Str(<<"S","2">>),
          total |-> Num(10), cost |-> Num(5), fee |-> Num(0), profit |-> Num(5)]
    [] name = "rF" ->
         \* a blank store
         [date |-> Str(<<"1","/","5","/","2","0","2","4">>),
          loc |-> Str(<<" "," ">>),
          person |-> Str(<<"B","o","b">>),
          id |-> Num(1002),
          total |-> Num(10), cost |-> Num(5), fee |-> Num(0), profit |-> Num(5)]
    [] name = "rG" ->
         \* no Sales#
         [date |-> Str(<<"1","/","5","/","2","0","2","4">>),
          loc |-> Str(<<"M","a","i","n"," ","S","t">>),
          person |-> Str(<<"B","o","b">>),
          id |-> Null,
          total |-> Num(10), cost |-> Num(5), fee |-> Num(0), profit |-> Num(5)]

(***************************************************************************)
(* Bounds of the model                                                      *)
(***************************************************************************)
\* longest sheet whose rows are drawn freely from the sample rows
MaxRows == 2

RECURSIVE SeqsUpTo(_, _)
SeqsUpTo(S, n) ==
  IF n = 0 THEN {<<>>}
  ELSE LET shorter == SeqsUpTo(S, n - 1)
       IN shorter \cup {Append(q, x) : q \in {t \in shorter : Len(t) = n - 1}, x \in S}

(***************************************************************************)
(* A sheet is head \o (fill copies of row rA) \o tail; its rows are what   *)
(* sheet_to_json returns.  The short sheets are all sequences of sample    *)
(* rows; the long ones bring a batch to its limit.                         *)
(***************************************************************************)
ShortSheets == {[head |-> h, fill |-> 0, tail |-> <<>>] : h \in SeqsUpTo(RowNames, MaxRows)}

LongSheets ==
  {[head |-> h, fill |-> n, tail |-> t] :
     h \in {<<>>, <<"rB">>},
     n \in {MAX_BATCH_OPS - 2, MAX_BATCH_OPS - 1},
     t \in {<<>>} \cup {<<name>> : name \in RowNames}}

Sheets == ShortSheets \cup LongSheets

\* a sheet without rows
NoSheet == [head |-> <<>>, fill |-> 0, tail |-> <<>>]

\* rows.length
NumRows(sheet) == Len(sheet.head) + sheet.fill + Len(sheet.tail)

\* the name of rows[i - 1] (i counts from 1, as rowCount does)
RowNameAt(sheet, i) ==
  IF i <= Len(sheet.head) THEN sheet.head[i]
  ELSE IF i <= Len(sheet.head) + sheet.fill THEN "rA"
  ELSE sheet.tail[i - Len(sheet.head) - sheet.fill]

\* object names of the bucket: one the function imports, two it skips
PathSales == <<"S","a","l","e","s","/","j","a","n",".","X","L","S","X">>

PathOther == <<"t","m","p","/","j","a","n",".","x","l","s","x">>

PathText == <<"s","a","l","e","s","/","j","a","n",".","c","s","v">>

Paths == {PathSales, PathOther, PathText}

(***************************************************************************)
(* The Firestore database: collection -> document id -> document.  A       *)
(* document maps field names to values.  updatedAt (the server's clock) is *)
(* left out of the documents.                                              *)
(***************************************************************************)
NoDocs == <<>>

EmptyDb ==
  [stores |-> NoDocs, sales_transactions |-> NoDocs, daily_aggregates |-> NoDocs,
   function_triggers |-> <<>>]

\* the fields of data laid over those of old ({ merge: true })
MergeDoc(old, data) ==
  [k \in DOMAIN old \cup DOMAIN data |-> IF k \in DOMAIN data THEN data[k] ELSE old[k]]

\* a faulty variant: a write that adds the amount to that of the stored document
SetDoc_Increment(docs, id, w) ==
  IF id \in DOMAIN docs /\ "grandTotal" \in DOMAIN w.data
    THEN [w.data EXCEPT !.grandTotal.n = @ + docs[id].grandTotal.n]
    ELSE w.data

\* the document left by set(ref, data) or set(ref, data, { merge: true })
SetDoc(docs, id, w) ==
  IF w.merge /\ id \in DOMAIN docs THEN MergeDoc(docs[id], w.data) ELSE w.data

(***************************************************************************)
(* A WriteBatch holds, per document <<collection, id>>, the write that the *)
(* sets queued for it amount to: a set replaces what was queued before, a  *)
(* set with merge is laid over it.  The number of queued writes is kept by *)
(* the handler (batchOps).                                                  *)
(***************************************************************************)
EmptyBatch == <<>>

\* batch.set(ref, data[, { merge: true }])
QueueWrite(batch, op) ==
  LET ref == <<op.coll, op.id>>
      w == IF op.merge /\ ref \in DOMAIN batch
             THEN [data |-> MergeDoc(batch[ref].data, op.data), merge |-> batch[ref].merge]
             ELSE [data |-> op.data, merge |-> op.merge]
  IN (ref :> w) @@ batch

\* batch.commit(): all writes of the batch, atomically
CommitWrites(d, batch) ==
  [c \in DOMAIN d |->
     LET written == {ref[2] : ref \in {x \in DOMAIN batch : x[1] = c}}
     IN [id \in DOMAIN d[c] \cup written |->
           IF id \in written THEN SetDoc(d[c], id, batch[<<c, id>>]) ELSE d[c][id]]]

(***************************************************************************)
(* The import: one invocation of importSalesXlsx per run slot.             *)
(*   db   the database                                                      *)
(*   run  per invocation: its position (pc), the event's object name, the  *)
(*        parsed sheet and the locals of the handler; and, for the         *)
(*        properties, a record of what happened: base (the database when   *)
(*        the object was finalized), rerun (the object had been imported   *)
(*        before), failed (an earlier invocation on this event failed),    *)
(*        partial (it failed after committing a batch), committed (the     *)
(*        sizes of the batches committed), lastCommit, queued (the number  *)
(*        of batch.set calls), queuedRows (the rows that made them) and    *)
(*        ops (the calls of batch.set in their order)                      *)
(* pos_sales and pos_sales_people are the backend's table and view.        *)
(***************************************************************************)
VARIABLES db, run, pos_sales, pos_sales_people, response, slugged, tasks, now, sub

vars == <<db, run, pos_sales, pos_sales_people, response, slugged, tasks, now, sub>>

\* no request has been answered
NoResponse == [endpoint |-> "none"]

\* slugify has not been called
NoSlug == [called |-> FALSE]

\* the table tasks without a row
NoTasks == <<>>

\* no call of subscribeTasks
NoSub == [pc |-> "none"]

Runs == {1, 2}

Unassigned == <<"U","n","a","s","s","i","g","n","e","d">>

\* a faulty variant: a row is accepted without a Sales#
NormalizeRow_NoIdCheck(r) ==
  LET dateOfSale == ymdFromExcelDate(r.date)
      storeLocation == CoalesceTrim(r.loc, <<>>)
      salesPersonString == CoalesceTrim(r.person, Unassigned)
      salesId == CoalesceTrim(r.id, <<>>)
      pieces == Split(salesPersonString, <<" ","A","N","D"," ">>)
  IN [skip |-> dateOfSale = Null \/ storeLocation = <<>>,
      dateOfSale |-> dateOfSale,
      storeLocation |-> storeLocation,
      salesId |-> salesId,
      storeId |-> slugify(storeLocation),
      salespeople |-> [i \in 1..Len(pieces) |-> Trim(pieces[i])],
      safeSalesId |-> toSafeDocId(salesId),
      grandTotal |-> NumberOrZero(r.total),
      cost |-> NumberOrZero(r.cost),
      financeFee |-> NumberOrZero(r.fee),
      profit |-> NumberOrZero(r.profit)]

\* what the loop body computes from the cells of one row
NormalizeRow(r) ==
  LET dateOfSale == ymdFromExcelDate(r.date)
      storeLocation == CoalesceTrim(r.loc, <<>>)
      salesPersonString == CoalesceTrim(r.person, Unassigned)
      salesId == CoalesceTrim(r.id, <<>>)
      pieces == Split(salesPersonString, <<" ","A","N","D"," ">>)
  IN [skip |-> dateOfSale = Null \/ storeLocation = <<>> \/ salesId = <<>>,
      dateOfSale |-> dateOfSale,
      storeLocation |-> storeLocation,
      salesId |-> salesId,
      storeId |-> slugify(storeLocation),
      salespeople |-> [i \in 1..Len(pieces) |-> Trim(pieces[i])],
      safeSalesId |-> toSafeDocId(salesId),
      grandTotal |-> NumberOrZero(r.total),
      cost |-> NumberOrZero(r.cost),
      financeFee |-> NumberOrZero(r.fee),
      profit |-> NumberOrZero(r.profit)]

Normalized == [name \in RowNames |-> NormalizeRow(SampleRow(name))]

\* batch.set(db.doc(`stores/${storeId}`), {...}, { merge: true })
StoreWrite(n) ==
  [coll |-> "stores", id |-> n.storeId, merge |-> TRUE,
   data |-> [name |-> n.storeLocation, active |-> TRUE]]

\* batch.set(db.doc(`sales_transactions/${safeSalesId}`), {...})
SaleWrite(n, filePath) ==
  [coll |-> "sales_transactions", id |-> n.safeSalesId, merge |-> FALSE,
   data |-> [salesId |-> n.salesId,
             date |-> n.dateOfSale.s,
             storeId |-> n.storeId,
             storeName |-> n.storeLocation,
             salespeople |-> n.salespeople,
             grandTotal |-> n.grandTotal,
             cost |-> n.cost,
             financeFee |-> n.financeFee,
             profit |-> n.profit,
             sourceFile |-> filePath]]

\* if (batchOps >= MAX_BATCH_OPS)
BatchFull(batchOps) == batchOps >= MAX_BATCH_OPS

\* a faulty variant: the set of the stores seen is not looked at
NewStore_Unseen(storeId, seenStores) == storeId # <<>>

\* if (storeId && !seenStores.has(storeId))
NewStore(storeId, seenStores) == storeId # <<>> /\ storeId \notin seenStores

\* one call of batch.set, as the properties remember it: the document, the
\* row that made it and the batch it went into
QueuedOp(L, op, i) ==
  [coll |-> op.coll, id |-> op.id, row |-> i, batch |-> Len(L.committed) + 1]

\* one pass of the body of for (const r of rows), for row number i; stop is
\* set where the body awaits commitBatch, warned holds the rows for which
\* console.warn was called
ProcessRow(L, i) ==
  LET n == Normalized[RowNameAt(L.sheet, i)]
      L1 == [L EXCEPT !.rowCount = @ + 1]
  IN IF n.skip
       THEN [L1 EXCEPT !.skippedRowCount = @ + 1]
       ELSE
         LET newStore == NewStore(n.storeId, L1.seenStores)
             L2 == IF newStore
                     THEN [L1 EXCEPT !.validRowCount = @ + 1,
                                     !.batch = QueueWrite(@, StoreWrite(n)),
                                     !.seenStores = @ \cup {n.storeId},
                                     !.batchOps = @ + 1,
                                     !.queued = @ + 1,
                                     !.ops = Append(@, QueuedOp(L, StoreWrite(n), i))]
                     ELSE [L1 EXCEPT !.validRowCount = @ + 1]
             L3 == [L2 EXCEPT !.warned = IF n.safeSalesId # n.salesId
                                           THEN @ \cup {i} ELSE @,
                              !.batch = QueueWrite(@, SaleWrite(n, L.filePath)),
                              !.batchOps = @ + 1,
                              !.queued = @ + 1,
                              !.queuedRows = @ \cup {i},
                              !.ops = Append(@, QueuedOp(L, SaleWrite(n, L.filePath), i))]
         IN [L3 EXCEPT !.stop = BatchFull(L3.batchOps)]

\* the loop over rows lo..hi, left where it awaits (by halves: a sheet has
\* hundreds of rows)
RECURSIVE LoopRows(_, _, _)
LoopRows(L, lo, hi) ==
  IF lo > hi \/ L.stop THEN L
  ELSE IF lo = hi THEN ProcessRow(L, lo)
  ELSE LET mid == (lo + hi) \div 2
       IN LoopRows(LoopRows(L, lo, mid), mid + 1, hi)

IdleRun ==
  [pc |-> "idle", filePath |-> <<>>, sheet |-> NoSheet,
   batch |-> EmptyBatch, seenStores |-> {}, batchOps |-> 0, rowCount |-> 0,
   validRowCount |-> 0, skippedRowCount |-> 0, totalWrites |-> 0,
   stop |-> FALSE, reason |-> "none",
   base |-> EmptyDb, rerun |-> FALSE, failed |-> FALSE, partial |-> FALSE,
   committed |-> <<>>, lastCommit |-> "none", queued |-> 0, queuedRows |-> {},
   warned |-> {}, ops |-> <<>>]

\* the handler from its entry to the loop: the checks of the object name,
\* the download and the parsing, the initial values of the locals
EnterHandler(old, filePath, sheet) ==
  IF filePath = <<>> \/ ~isSalesFolder(filePath) \/ ~IsExcelName(filePath)
    THEN [IdleRun EXCEPT !.pc = "skipped", !.filePath = filePath,
                         !.base = old.base, !.rerun = old.rerun,
                         !.failed = old.failed, !.partial = old.partial]
    ELSE [IdleRun EXCEPT !.pc = "loop", !.filePath = filePath, !.sheet = sheet,
                         !.base = old.base, !.rerun = old.rerun,
                         !.failed = old.failed, !.partial = old.partial]

\* where the handler goes on after commitBatch(reason)
AfterCommit(reason) == IF reason = "final" THEN "done" ELSE "loop"

\* a faulty variant: the final commitBatch is left out
commitBatch_NoFinal(rn, reason) ==
  IF rn.batchOps = 0 \/ reason = "final"
    THEN [rn EXCEPT !.pc = AfterCommit(reason)]
    ELSE [rn EXCEPT !.pc = "commit", !.reason = reason]

\* commitBatch(reason) up to its await: nothing to do for an empty batch
commitBatch(rn, reason) ==
  IF rn.batchOps = 0
    THEN [rn EXCEPT !.pc = AfterCommit(reason)]
    ELSE [rn EXCEPT !.pc = "commit", !.reason = reason]

\* a faulty variant: totalWrites is not kept
Committed_NoCount(rn) ==
  [rn EXCEPT !.batch = EmptyBatch,
             !.batchOps = 0,
             !.committed = Append(@, rn.batchOps),
             !.lastCommit = "ok",
             !.pc = AfterCommit(rn.reason)]

\* commitBatch after batch.commit() has resolved
Committed(rn) ==
  [rn EXCEPT !.totalWrites = @ + rn.batchOps,
             !.batch = EmptyBatch,
             !.batchOps = 0,
             !.committed = Append(@, rn.batchOps),
             !.lastCommit = "ok",
             !.pc = AfterCommit(rn.reason)]

\* the loop from the next row to the next await, or to "Import complete"
RunToAwait(rn) ==
  LET L == LoopRows([rn EXCEPT !.stop = FALSE], rn.rowCount + 1, NumRows(rn.sheet))
  IN IF L.stop
       THEN commitBatch(L, "max")
       ELSE commitBatch(L, "final")

(***************************************************************************)
(* Actions of invocation r                                                  *)
(***************************************************************************)
\* an object is finalized in the bucket: the function is triggered
Upload(r, filePath, sheet) ==
  /\ run[r].pc = "idle"
  /\ run' = [run EXCEPT ![r] =
       EnterHandler([base |-> db, rerun |-> FALSE, failed |-> FALSE, partial |-> FALSE],
                    filePath, sheet)]
  /\ UNCHANGED <<db, pos_sales, pos_sales_people, response, slugged, tasks, now, sub>>

\* the same object is finalized again after its import has completed
ReUpload(r) ==
  /\ run[r].pc = "done"
  /\ run' = [run EXCEPT ![r] =
       EnterHandler([base |-> db, rerun |-> TRUE, failed |-> FALSE, partial |-> FALSE],
                    run[r].filePath, run[r].sheet)]
  /\ UNCHANGED <<db, pos_sales, pos_sales_people, response, slugged, tasks, now, sub>>

\* the invocation is over (returned, or failed for good): its locals are gone
Finish(r) ==
  /\ run[r].pc \in {"done", "skipped", "error"}
  /\ run' = [run EXCEPT ![r] = IdleRun]
  /\ UNCHANGED <<db, pos_sales, pos_sales_people, response, slugged, tasks, now, sub>>

\* retry: true -- a failed invocation is run again on the same event
Retry(r) ==
  /\ run[r].pc = "error"
  /\ run' = [run EXCEPT ![r] =
       EnterHandler([base |-> run[r].base, rerun |-> run[r].rerun, failed |-> TRUE,
                     partial |-> run[r].partial \/ run[r].committed # <<>>],
                    run[r].filePath, run[r].sheet)]
  /\ UNCHANGED <<db, pos_sales, pos_sales_people, response, slugged, tasks, now, sub>>

\* the loop runs to its next await, or the handler to its end
Loop(r) ==
  /\ run[r].pc = "loop"
  /\ run' = [run EXCEPT ![r] = RunToAwait(run[r])]
  /\ UNCHANGED <<db, pos_sales, pos_sales_people, response, slugged, tasks, now, sub>>

\* await batch.commit() resolves
CommitOk(r) ==
  /\ run[r].pc = "commit"
  /\ db' = CommitWrites(db, run[r].batch)
  /\ run' = [run EXCEPT ![r] = Committed(run[r])]
  /\ UNCHANGED <<pos_sales, pos_sales_people, response, slugged, tasks, now, sub>>

\* a faulty variant: the rejection is caught and the handler returns normally
CommitFail_Swallow(r) ==
  /\ run[r].pc = "commit"
  /\ run' = [run EXCEPT ![r].pc = "done", ![r].lastCommit = "failed"]
  /\ UNCHANGED <<db, pos_sales, pos_sales_people, response, slugged, tasks, now, sub>>

\* await batch.commit() rejects: catch (e) { console.error(...); throw e; }
CommitFail(r) ==
  /\ run[r].pc = "commit"
  /\ run' = [run EXCEPT ![r].pc = "error", ![r].lastCommit = "failed"]
  /\ UNCHANGED <<db, pos_sales, pos_sales_people, response, slugged, tasks, now, sub>>

(***************************************************************************)
(* Spec: one invocation at a time (uploads, retries)                        *)
(***************************************************************************)
Init ==
  /\ db = EmptyDb
  /\ run = [r \in Runs |-> IdleRun]
  /\ pos_sales = <<>>
  /\ pos_sales_people = <<>>
  /\ response = NoResponse
  /\ slugged = NoSlug
  /\ tasks = NoTasks
  /\ now = 0
  /\ sub = NoSub

\* the sheet of an object the handler skips is never read
Accepted(filePath) == isSalesFolder(filePath) /\ IsExcelName(filePath)

Uploads ==
  {<<filePath, sheet>> \in Paths \X Sheets : Accepted(filePath) \/ sheet = NoSheet}

UploadFile == \E u \in Uploads : Upload(1, u[1], u[2])

UploadAgain == ReUpload(1)

RetryImport == Retry(1)

InvocationEnds == Finish(1)

ImportLoop == Loop(1)

BatchCommitted == CommitOk(1)

BatchRejected == CommitFail(1)

Next ==
  \/ UploadFile
  \/ UploadAgain
  \/ RetryImport
  \/ InvocationEnds
  \/ ImportLoop
  \/ BatchCommitted
  \/ BatchRejected

Spec == Init /\ [][Next]_vars

(***************************************************************************)
(* SpecConc: two objects are finalized and their invocations run at the    *)
(* same time; every step of one may fall between two steps of the other.   *)
(***************************************************************************)
ConcSheets ==
  {sheet \in Sheets : NumRows(sheet) <= 1 \/ sheet.fill = MAX_BATCH_OPS - 2}

ConcUpload == \E r \in Runs, sheet \in ConcSheets : Upload(r, PathSales, sheet)

ConcLoop == \E r \in Runs : Loop(r)

ConcCommitted == \E r \in Runs : CommitOk(r)

NextConc ==
  \/ ConcUpload
  \/ ConcLoop
  \/ ConcCommitted

SpecConc == Init /\ [][NextConc]_vars

(***************************************************************************)
(* The view pos_sales_people of db/schema.sql over the table pos_sales.    *)
(* A NUMERIC column holds NULL, NaN or a number; the numbers are counted   *)
(* in units of the last decimal digit a numeric division keeps.  A TEXT    *)
(* column holds NULL (SqlNull) or a string.                                *)
(***************************************************************************)
SqlNull == [k |-> "null"]

SqlNaN == [k |-> "nan"]

SqlNum(v) == [k |-> "num", v |-> v]

SqlText(s) == [k |-> "text", s |-> s]

\* a DATE, written YYYY-MM-DD
SqlDate(s) == [k |-> "date", s |-> s]

\* CASE WHEN x IS NULL OR x <> x THEN 0 ELSE x END: PostgreSQL treats NaN as
\* equal to NaN, so x <> x is false for NaN (and NULL, not true, for NULL)
CoerceNumeric(x) == IF x.k = "null" THEN SqlNum(0) ELSE x

\* x / NULLIF(n, 0) for a non-null x, rounded to the last digit kept
NumericDiv(x, n) ==
  IF n = 0 THEN SqlNull
  ELSE IF x.k = "num" THEN SqlNum((2 * x.v + n) \div (2 * n))
  ELSE x

\* the end of the run of blanks that starts at position i (i - 1 if none)
RECURSIVE SpaceRunEnd(_, _)
SpaceRunEnd(s, i) ==
  IF i <= Len(s) /\ IsSpace(s[i]) THEN SpaceRunEnd(s, i + 1) ELSE i - 1

\* the start of the run of blanks that ends at position i (i + 1 if none)
RECURSIVE SpaceRunStart(_, _)
SpaceRunStart(s, i) ==
  IF i >= 1 /\ IsSpace(s[i]) THEN SpaceRunStart(s, i - 1) ELSE i + 1

\* regexp_replace(s, E'\\s*&\\s*', ' and ', 'g')
RECURSIVE ReplaceAmpersands(_)
ReplaceAmpersands(s) ==
  LET i == IndexOf(s, <<"&">>)
  IN IF i = 0 THEN s
     ELSE SubSeq(s, 1, SpaceRunStart(s, i - 1) - 1)
            \o <<" ","a","n","d"," ">>
            \o ReplaceAmpersands(SubSeq(s, SpaceRunEnd(s, i + 1) + 1, Len(s)))

\* a match of \s+and\s+ (flag i) starts at position i of s
AndMatchAt(s, i) ==
  LET j == SpaceRunEnd(s, i)
  IN /\ j >= i
     /\ j + 4 <= Len(s)
     /\ ToLowerCase(SubSeq(s, j + 1, j + 3)) = <<"a","n","d">>
     /\ IsSpace(s[j + 4])

\* regexp_split_to_array(s, E'\\s+and\\s+', 'i')
RECURSIVE SplitOnAnd(_)
SplitOnAnd(s) ==
  LET hits == {i \in 1..Len(s) : AndMatchAt(s, i)}
  IN IF hits = {} THEN <<s>>
     ELSE LET i == CHOOSE x \in hits : \A y \in hits : x <= y
              e == SpaceRunEnd(s, SpaceRunEnd(s, i) + 4)
          IN <<SubSeq(s, 1, i - 1)>> \o SplitOnAnd(SubSeq(s, e + 1, Len(s)))

\* the CTE base: the coerced amounts and the array people of one sale
base(sale) ==
  [sale_id |-> sale.sale_id,
   sale_date |-> sale.sale_date,
   location |-> sale.location,
   grand_total |-> CoerceNumeric(sale.grand_total),
   profit |-> CoerceNumeric(sale.profit),
   total_finance_amt |-> CoerceNumeric(sale.total_finance_amt),
   finance_fee |-> CoerceNumeric(sale.finance_fee),
   finance_balance |-> CoerceNumeric(sale.finance_balance),
   people |-> SplitOnAnd(ReplaceAmpersands(
                IF sale.salesperson.k = "null" THEN <<>> ELSE sale.salesperson.s))]

\* NULLIF(trim(p.person), '')
PersonOrNull(person) == IF Trim(person) = <<>> THEN SqlNull ELSE SqlText(Trim(person))

\* the rows of the view for one sale: expanded (unnest(people), people_count =
\* array_length(people, 1)) and the final SELECT
ViewRows(sale) ==
  LET b == base(sale)
      people_count == Len(b.people)
  IN [i \in 1..people_count |->
       [sale_id |-> b.sale_id,
        sale_date |-> b.sale_date,
        location |-> b.location,
        salesperson |-> PersonOrNull(b.people[i]),
        grand_total_split |-> NumericDiv(b.grand_total, people_count),
        profit_split |-> NumericDiv(b.profit, people_count),
        total_finance_amt_split |-> NumericDiv(b.total_finance_amt, people_count),
        finance_fee_split |-> NumericDiv(b.finance_fee, people_count),
        finance_balance_split |-> NumericDiv(b.finance_balance, people_count)]]

\* SELECT * FROM pos_sales_people, grouped by sale
SelectPeople(table) == [id \in DOMAIN table |-> ViewRows(table[id])]

(***************************************************************************)
(* SpecSplit: a table holding one sale, and the view read from it          *)
(***************************************************************************)
\* longest salesperson text, in pieces
MaxPieces == 3

PersonPieces ==
  {<<"A","l">>, <<"B","o">>, <<" ">>, <<"&">>,
   <<" ","a","n","d"," ">>, <<" ","A","N","D"," ">>, <<"a","n","d">>}

PersonTexts == {Concat(q) : q \in SeqsUpTo(PersonPieces, MaxPieces)}

\* grand_total, profit and the finance columns of the sample sales
AmountProfiles ==
  {<<SqlNum(100), SqlNum(20), SqlNum(90), SqlNum(5), SqlNum(85)>>,
   <<SqlNum(250), SqlNull, SqlNum(0), SqlNull, SqlNum(0)>>,
   <<SqlNaN, SqlNum(-30), SqlNull, SqlNaN, SqlNum(7)>>}

SampleSales ==
  {[sale_id |-> <<"S","1">>,
    sale_date |-> SqlDate(<<"2","0","2","4","-","0","1","-","0","5">>),
    location |-> SqlText(<<"M","a","i","n"," ","S","t">>),
    salesperson |-> who,
    grand_total |-> a[1], profit |-> a[2], total_finance_amt |-> a[3],
    finance_fee |-> a[4], finance_balance |-> a[5]] :
     who \in {SqlNull} \cup {SqlText(t) : t \in PersonTexts},
     a \in AmountProfiles}

InitSplit ==
  /\ db = EmptyDb
  /\ run = [r \in Runs |-> IdleRun]
  /\ \E sale \in SampleSales : pos_sales = (sale.sale_id :> sale)
  /\ pos_sales_people = <<>>
  /\ response = NoResponse
  /\ slugged = NoSlug
  /\ tasks = NoTasks
  /\ now = 0
  /\ sub = NoSub

\* a query reads the view
ReadView ==
  /\ pos_sales_people' = SelectPeople(pos_sales)
  /\ UNCHANGED <<db, run, pos_sales, response, slugged, tasks, now, sub>>

NextSplit == ReadView

SpecSplit == InitSplit /\ [][NextSplit]_vars

(***************************************************************************)
(* The analytics endpoints of pos-dashboard-backend/src/server.ts.  A      *)
(* value of req.query is absent (Null) or a string (Str).  NUMERIC values  *)
(* are counted in thousandths, so ROUND(x, 2) rounds to a multiple of 10.  *)
(***************************************************************************)
Dollars(n) == SqlNum(n * 1000)

\* /^\d{4}-\d{2}-\d{2}$/.test(s)
IsYmd(s) ==
  /\ Len(s) = 10
  /\ s[5] = "-" /\ s[8] = "-"
  /\ \A i \in {1, 2, 3, 4, 6, 7, 9, 10} : IsDigit(s[i])

parseDateParam(v, fallback) ==
  IF Falsy(v) \/ v.t # "str" THEN fallback
  ELSE IF ~IsYmd(v.s) THEN fallback
  ELSE v.s

StartFallback == <<"1","9","0","0","-","0","1","-","0","1">>

EndFallback == <<"2","1","0","0","-","0","1","-","0","1">>

\* the text handed to the query as a parameter, or NULL
parseTextParam(v) ==
  IF Falsy(v) \/ v.t # "str" THEN SqlNull
  ELSE IF Trim(v.s) = <<>> THEN SqlNull
  ELSE SqlText(Trim(v.s))

\* Math.min(Number(v || dflt), cap), for the numbers the sample requests hold
LimitParam(v, dflt, cap) ==
  LET n == IF Falsy(v) THEN JsNum(dflt) ELSE JsNumber(v)
  IN IF n.nan THEN n
     ELSE IF n.inf \/ n.n > cap THEN JsNum(cap)
     ELSE n

\* Number(req.query.multiplier || 1.5), finite or else 1.5, in halves
MultiplierParam(v) ==
  LET n == IF Falsy(v) THEN JsNaN ELSE JsNumber(v)
  IN IF n.nan \/ n.inf THEN 3 ELSE 2 * n.n

\* the number of a day: year, month and day of a DATE as one number that
\* orders the dates
DateKey(s) ==
  DigitsToNat(SubSeq(s, 1, 4)) * 10000
    + DigitsToNat(SubSeq(s, 6, 7)) * 100
    + DigitsToNat(SubSeq(s, 9, 10))

\* a faulty variant: the day end is taken into the range
InRange_EndInclusive(sale_date, start, end) ==
  /\ sale_date.k = "date"
  /\ DateKey(sale_date.s) >= DateKey(start)
  /\ DateKey(sale_date.s) <= DateKey(end)

\* sale_date >= $1 AND sale_date < $2 (not true of a NULL sale_date)
InRange(sale_date, start, end) ==
  /\ sale_date.k = "date"
  /\ DateKey(sale_date.s) >= DateKey(start)
  /\ DateKey(sale_date.s) < DateKey(end)

\* text LIKE pattern: % is any text, _ any character, \ takes the next
\* character as it is
RECURSIVE LikeMatch(_, _)
LikeMatch(t, p) ==
  IF p = <<>> THEN t = <<>>
  ELSE IF p[1] = "%"
    THEN \E k \in 0..Len(t) : LikeMatch(SubSeq(t, k + 1, Len(t)), Tail(p))
  ELSE IF t = <<>> THEN FALSE
  ELSE IF p[1] = "\\" /\ Len(p) >= 2
    THEN p[2] = t[1] /\ LikeMatch(Tail(t), SubSeq(p, 3, Len(p)))
  ELSE (p[1] = "_" \/ p[1] = t[1]) /\ LikeMatch(Tail(t), Tail(p))

\* salesperson ILIKE ('%' || q || '%'): not true of a NULL salesperson
ILikeContains(salesperson, q) ==
  /\ salesperson.k = "text"
  /\ LikeMatch(ToLowerCase(salesperson.s), <<"%">> \o ToLowerCase(q) \o <<"%">>)

\* $n::text IS NULL OR salesperson ILIKE ('%' || $n || '%')
OptionalFilter(salesperson, q) == q.k = "null" \/ ILikeContains(salesperson, q.s)

\* the order of NUMERIC values: NaN equals NaN and is above every number
NumericLess(a, b) ==
  /\ a.k = "num"
  /\ b.k = "nan" \/ (b.k = "num" /\ a.v < b.v)

\* x > 0, where true
IsPositive(x) == x.k = "nan" \/ (x.k = "num" /\ x.v > 0)

\* SUM over the values of a column: NULLs are skipped, no value gives NULL
RECURSIVE SqlSum(_)
SqlSum(xs) ==
  IF xs = <<>> THEN SqlNull
  ELSE LET rest == SqlSum(Tail(xs))
           x == Head(xs)
       IN IF x.k = "null" THEN rest
          ELSE IF rest.k = "null" THEN x
          ELSE IF x.k = "nan" \/ rest.k = "nan" THEN SqlNaN
          ELSE SqlNum(x.v + rest.v)

\* ROUND(x::numeric, 2): half away from zero
Round2(x) ==
  IF x.k # "num" THEN x
  ELSE IF x.v >= 0 THEN SqlNum(((x.v + 5) \div 10) * 10)
  ELSE SqlNum(-(((-x.v + 5) \div 10) * 10))

\* the days from 1970-01-01 to the day y-m-d
DaysFromCivil(y, m, d) ==
  LET yy == IF m <= 2 THEN y - 1 ELSE y
      era == yy \div 400
      yoe == yy - era * 400
      mp == IF m > 2 THEN m - 3 ELSE m + 9
      doy == (153 * mp + 2) \div 5 + d - 1
      doe == yoe * 365 + yoe \div 4 - yoe \div 100 + doy
  IN era * 146097 + doe - 719468

RECURSIVE PadStart4(_)
PadStart4(s) == IF Len(s) >= 4 THEN s ELSE PadStart4(<<"0">> \o s)

\* the day that lies z days after 1970-01-01, written YYYY-MM-DD
CivilFromDays(z) ==
  LET zz == z + 719468
      era == zz \div 146097
      doe == zz - era * 146097
      yoe == (doe - doe \div 1460 + doe \div 36524 - doe \div 146096) \div 365
      doy == doe - (365 * yoe + yoe \div 4 - yoe \div 100)
      mp == (5 * doy + 2) \div 153
      d == doy - (153 * mp + 2) \div 5 + 1
      m == IF mp < 10 THEN mp + 3 ELSE mp - 9
      y == yoe + era * 400 + (IF m <= 2 THEN 1 ELSE 0)
  IN PadStart4(NatToString(y)) \o <<"-">> \o PadStart2(NatToString(m))
       \o <<"-">> \o PadStart2(NatToString(d))

\* date_trunc('week', sale_date)::date: the Monday of the week of the day
WeekOf(s) ==
  LET days == DaysFromCivil(DigitsToNat(SubSeq(s, 1, 4)),
                            DigitsToNat(SubSeq(s, 6, 7)),
                            DigitsToNat(SubSeq(s, 9, 10)))
  IN CivilFromDays(days - ((days + 3) % 7))

\* ORDER BY ... LIMIT n: the first n rows (all of them if there are fewer)
\* of the rows S in an order that agrees with less, where less[<<x, y>>]
\* says that x comes before y; rows that less does not order come in any
\* order
RECURSIVE Orderings(_, _, _)
Orderings(S, less, n) ==
  IF S = {} \/ n <= 0 THEN {<<>>}
  ELSE UNION {{<<x>> \o t : t \in Orderings(S \ {x}, less, n - 1)} :
                x \in {x \in S : \A y \in S : ~less[<<y, x>>]}}

SeqRange(q) == {q[i] : i \in 1..Len(q)}

\* the value of rank k (from 1) among the values val[x], x in S
KthValue(S, val, k) ==
  LET x == CHOOSE x \in S :
             /\ Cardinality({y \in S : NumericLess(val[y], val[x])}) < k
             /\ k <= Cardinality({y \in S : ~NumericLess(val[x], val[y])})
  IN val[x]

\* percentile_cont(p / 4) WITHIN GROUP (ORDER BY val), in quarters of the
\* unit: NULL over no rows, else the value at position p * (n - 1) / 4 of
\* the sorted values, interpolated between its two neighbours
PercentileCont(S, val, p) ==
  LET n == Cardinality(S)
      first == (p * (n - 1)) \div 4
      part == (p * (n - 1)) % 4
      lo == KthValue(S, val, first + 1)
      hi == KthValue(S, val, first + 2)
  IN IF n = 0 THEN SqlNull
     ELSE IF part = 0 THEN (IF lo.k = "nan" THEN SqlNaN ELSE SqlNum(4 * lo.v))
     ELSE IF lo.k = "nan" \/ hi.k = "nan" THEN SqlNaN
     ELSE SqlNum(4 * lo.v + part * (hi.v - lo.v))

\* (q3 + ($5::numeric * (q3 - q1))), in eighths of the unit; mult in halves
HighThreshold(q1, q3, mult) ==
  IF q1.k = "null" \/ q3.k = "null" THEN SqlNull
  ELSE IF q1.k = "nan" \/ q3.k = "nan" THEN SqlNaN
  ELSE SqlNum(2 * q3.v + mult * (q3.v - q1.v))

\* s.grand_total > b.hi, where true
AboveThreshold(grand_total, hi) ==
  /\ hi.k = "num"
  /\ grand_total.k = "nan" \/ (grand_total.k = "num" /\ 8 * grand_total.v > hi.v)

\* the smallest sample for which outliers are flagged (WHERE b.n >= 20)
MinOutlierSample == 20

\* the CTE s of /api/outliers: the columns of one sale (the columns
\* receipt_no, customer_name and raw_source_file are copied and left out)
OutlierRow(sale) ==
  [sale_id |-> sale.sale_id,
   sale_date |-> sale.sale_date,
   salesperson |-> sale.salesperson,
   location |-> sale.location,
   grand_total |-> CoerceNumeric(sale.grand_total),
   profit |-> CoerceNumeric(sale.profit),
   total_finance_amt |-> CoerceNumeric(sale.total_finance_amt),
   finance_balance |-> CoerceNumeric(sale.finance_balance),
   finance_fee |-> CoerceNumeric(sale.finance_fee)]

\* the sales of the CTE s of /api/outliers
OutlierSample(table, start, end, q) ==
  {id \in DOMAIN table :
     /\ InRange(table[id].sale_date, start, end)
     /\ OptionalFilter(table[id].salesperson, q)}

\* a faulty variant: sales are flagged whatever the size of the sample
OutlierFlagged_AnySample(table, start, end, q, mult) ==
  LET sample == OutlierSample(table, start, end, q)
      val == [id \in sample |-> CoerceNumeric(table[id].grand_total)]
      hi == HighThreshold(PercentileCont(sample, val, 1),
                          PercentileCont(sample, val, 3), mult)
  IN [hi |-> hi, ids |-> {id \in sample : AboveThreshold(val[id], hi)}]

\* the sales of the CTE flagged before ORDER BY and LIMIT, and b.hi
OutlierFlagged(table, start, end, q, mult) ==
  LET sample == OutlierSample(table, start, end, q)
      val == [id \in sample |-> CoerceNumeric(table[id].grand_total)]
      hi == HighThreshold(PercentileCont(sample, val, 1),
                          PercentileCont(sample, val, 3), mult)
  IN IF Cardinality(sample) >= MinOutlierSample
       THEN [hi |-> hi, ids |-> {id \in sample : AboveThreshold(val[id], hi)}]
       ELSE [hi |-> SqlNull, ids |-> {}]

\* the bodies /api/outliers may answer with: the rows of flagged in one of
\* the orders ORDER BY s.grand_total DESC allows, cut at LIMIT $3;
\* threshold_high and total_count are read from the first row
OutliersBodies(table, query) ==
  LET start == parseDateParam(query.start, StartFallback)
      end == parseDateParam(query.end, EndFallback)
      limit == LimitParam(query.limit, 25, 200).n
      f == OutlierFlagged(table, start, end, parseTextParam(query.salesperson),
                          MultiplierParam(query.multiplier))
      less == [xy \in f.ids \X f.ids |->
                 NumericLess(CoerceNumeric(table[xy[2]].grand_total),
                             CoerceNumeric(table[xy[1]].grand_total))]
  IN {[start |-> start, end |-> end, limit |-> limit,
       threshold_high |-> IF o = <<>> THEN SqlNull ELSE f.hi,
       total_count |-> IF o = <<>> THEN 0 ELSE Cardinality(f.ids),
       rows |-> [i \in 1..Len(o) |-> OutlierRow(table[o[i]])]] :
        o \in Orderings(f.ids, less, limit)}

\* the rows of pos_sales_people, people being what SELECT * FROM
\* pos_sales_people returns: <<sale_id, i>> stands for row i of the sale
PeopleKeys(people) ==
  UNION {{<<id, i>> : i \in 1..Len(people[id])} : id \in DOMAIN people}

PeopleRow(people, key) == people[key[1]][key[2]]

SentinelName == <<"S","a","l","e","s",","," ","S","t","o","r","e">>

\* a / b rounded to the unit, half away from zero
RoundDiv(a, b) ==
  LET aa == IF b < 0 THEN -a ELSE a
      bb == IF b < 0 THEN -b ELSE b
  IN IF aa >= 0 THEN (2 * aa + bb) \div (2 * bb)
     ELSE -((2 * (-aa) + bb) \div (2 * bb))

\* the column margin_pct of /api/low-margin; the quotient is kept to the
\* hundredth of a percent
MarginPct(gross_margin, grand_total_split, profit) ==
  IF gross_margin.k # "null" THEN gross_margin
  ELSE IF grand_total_split.k = "null" \/ grand_total_split = SqlNum(0) THEN SqlNull
  ELSE IF grand_total_split.k = "nan" \/ profit.k = "nan" THEN SqlNaN
  ELSE SqlNum(RoundDiv(profit.v * 100 * 100, grand_total_split.v) * 10)

\* the CTE s of /api/low-margin: the columns of one joined row
LowMarginRow(table, people, key) ==
  LET p == PeopleRow(people, key)
      sale == table[key[1]]
      profit == CoerceNumeric(p.profit_split)
  IN [sale_id |-> p.sale_id,
      sale_date |-> p.sale_date,
      salesperson |-> p.salesperson,
      location |-> IF p.location.k # "null" THEN p.location ELSE sale.location,
      grand_total |-> p.grand_total_split,
      profit |-> profit,
      margin_pct |-> MarginPct(sale.gross_margin, p.grand_total_split, profit),
      total_finance_amt |-> CoerceNumeric(p.total_finance_amt_split),
      finance_balance |-> CoerceNumeric(p.finance_balance_split),
      finance_fee |-> CoerceNumeric(p.finance_fee_split)]

\* the rows of the CTE s of /api/low-margin
LowMarginSample(people, start, end, q) ==
  {key \in PeopleKeys(people) :
     LET p == PeopleRow(people, key)
     IN /\ InRange(p.sale_date, start, end)
        /\ p.salesperson.k = "text"
        /\ p.salesperson.s # <<>>
        /\ p.salesperson.s # SentinelName
        /\ OptionalFilter(p.salesperson, q)}

\* WHERE margin_pct BETWEEN -100 AND 100
MarginInBounds(m) == m.k = "num" /\ m.v >= -100 * 1000 /\ m.v <= 100 * 1000

\* the sets of rows WHERE rn <= $4 may keep: ROW_NUMBER() numbers the rows of
\* a salesperson by margin_pct alone, rows of equal margin_pct in any order
RECURSIVE KeptSets(_, _, _, _)
KeptSets(names, ranked, row, limitPer) ==
  IF names = {} THEN {{}}
  ELSE LET name == CHOOSE x \in names : TRUE
           part == {key \in ranked : row[key].salesperson = name}
           less == [xy \in part \X part |->
                      NumericLess(row[xy[1]].margin_pct, row[xy[2]].margin_pct)]
       IN {SeqRange(o) \cup rest :
             o \in Orderings(part, less, limitPer),
             rest \in KeptSets(names \ {name}, ranked, row, limitPer)}

\* ORDER BY margin_pct ASC NULLS LAST, profit ASC, grand_total DESC
LowMarginBefore(a, b) ==
  \/ NumericLess(a.margin_pct, b.margin_pct)
  \/ /\ a.margin_pct = b.margin_pct
     /\ \/ NumericLess(a.profit, b.profit)
        \/ a.profit = b.profit /\ NumericLess(b.grand_total, a.grand_total)

\* the bodies /api/low-margin may answer with
LowMarginBodies(table, people, query) ==
  LET start == parseDateParam(query.start, StartFallback)
      end == parseDateParam(query.end, EndFallback)
      limitPer == LimitParam(query.limit_per, 5, 50).n
      limitTotal == LimitParam(query.limit_total, 200, 2000).n
      sample == LowMarginSample(people, start, end, parseTextParam(query.salesperson))
      row == [key \in sample |-> LowMarginRow(table, people, key)]
      ranked == {key \in sample : MarginInBounds(row[key].margin_pct)}
      names == {row[key].salesperson : key \in ranked}
  IN UNION {
       LET less == [xy \in kept \X kept |-> LowMarginBefore(row[xy[1]], row[xy[2]])]
       IN {[start |-> start, end |-> end,
            limit_per |-> limitPer, limit_total |-> limitTotal,
            total_count |-> IF o = <<>> THEN 0 ELSE Cardinality(kept),
            rows |-> [i \in 1..Len(o) |-> row[o[i]]]] :
             o \in Orderings(kept, less, limitTotal)} :
       kept \in KeptSets(names, ranked, row, limitPer)}

\* the values val[x] of the rows x in S, in some order
RECURSIVE ColumnValues(_, _)
ColumnValues(S, val) ==
  IF S = {} THEN <<>>
  ELSE LET x == CHOOSE x \in S : TRUE
       IN <<val[x]>> \o ColumnValues(S \ {x}, val)

\* the rows the queries of /api/summary, /api/finance-summary,
\* /api/sales-daily and /api/sales-by-location aggregate: with a salesperson
\* parameter the rows of pos_sales_people that match it, without one the
\* rows of pos_sales with their amounts coerced
RangeLines(table, people, start, end, q) ==
  IF q.k = "text"
    THEN LET keys == {key \in PeopleKeys(people) :
                        /\ InRange(PeopleRow(people, key).sale_date, start, end)
                        /\ ILikeContains(PeopleRow(people, key).salesperson, q.s)}
         IN [key \in keys |->
              LET p == PeopleRow(people, key)
              IN [sale_date |-> p.sale_date,
                  location |-> p.location,
                  grand_total |-> p.grand_total_split,
                  profit |-> CoerceNumeric(p.profit_split),
                  total_finance_amt |-> p.total_finance_amt_split,
                  finance_fee |-> p.finance_fee_split,
                  finance_balance |-> p.finance_balance_split]]
    ELSE LET ids == {id \in DOMAIN table : InRange(table[id].sale_date, start, end)}
         IN [id \in ids |->
              [sale_date |-> table[id].sale_date,
               location |-> table[id].location,
               grand_total |-> CoerceNumeric(table[id].grand_total),
               profit |-> CoerceNumeric(table[id].profit),
               total_finance_amt |-> CoerceNumeric(table[id].total_finance_amt),
               finance_fee |-> CoerceNumeric(table[id].finance_fee),
               finance_balance |-> CoerceNumeric(table[id].finance_balance)]]

\* ROUND(SUM(column)::numeric, 2) over the rows S of lines
RoundedSum(lines, S, column) ==
  Round2(SqlSum(ColumnValues(S, [x \in S |-> lines[x][column]])))

\* the body of /api/summary
SummaryBody(table, people, query) ==
  LET start == parseDateParam(query.start, StartFallback)
      end == parseDateParam(query.end, EndFallback)
      lines == RangeLines(table, people, start, end, parseTextParam(query.salesperson))
  IN [start |-> start, end |-> end,
      lines |-> Cardinality(DOMAIN lines),
      sales |-> RoundedSum(lines, DOMAIN lines, "grand_total"),
      profit |-> RoundedSum(lines, DOMAIN lines, "profit")]

\* the body of /api/finance-summary
FinanceSummaryBody(table, people, query) ==
  LET start == parseDateParam(query.start, StartFallback)
      end == parseDateParam(query.end, EndFallback)
      lines == RangeLines(table, people, start, end, parseTextParam(query.salesperson))
      financed == {x \in DOMAIN lines :
                     \/ IsPositive(lines[x].total_finance_amt)
                     \/ IsPositive(lines[x].finance_balance)}
  IN [start |-> start, end |-> end,
      lines |-> Cardinality(DOMAIN lines),
      financed_lines |-> IF DOMAIN lines = {} THEN SqlNull
                         ELSE SqlNum(Cardinality(financed)),
      financed_amount |-> RoundedSum(lines, DOMAIN lines, "total_finance_amt"),
      finance_fee |-> RoundedSum(lines, DOMAIN lines, "finance_fee"),
      finance_balance |-> RoundedSum(lines, DOMAIN lines, "finance_balance")]

\* a faulty variant: the rows of 'Sales, Store' are grouped too
LeaderboardSample_WithSentinel(people, start, end, q) ==
  {key \in PeopleKeys(people) :
     LET p == PeopleRow(people, key)
     IN /\ InRange(p.sale_date, start, end)
        /\ p.salesperson.k = "text"
        /\ OptionalFilter(p.salesperson, q)}

\* the rows of pos_sales_people the query of /api/leaderboard groups
LeaderboardSample(people, start, end, q) ==
  {key \in PeopleKeys(people) :
     LET p == PeopleRow(people, key)
     IN /\ InRange(p.sale_date, start, end)
        /\ p.salesperson.k = "text"
        /\ p.salesperson.s # SentinelName
        /\ OptionalFilter(p.salesperson, q)}

\* GROUP BY salesperson: the row of each salesperson
LeaderboardGroups(people, sample) ==
  LET val == [key \in sample |-> PeopleRow(people, key)]
      lines == [key \in sample |->
                  [grand_total |-> val[key].grand_total_split,
                   profit |-> CoerceNumeric(val[key].profit_split)]]
  IN {LET S == {key \in sample : val[key].salesperson = name}
      IN [salesperson |-> name,
          lines |-> Cardinality(S),
          sales |-> RoundedSum(lines, S, "grand_total"),
          profit |-> RoundedSum(lines, S, "profit")] :
        name \in {val[key].salesperson : key \in sample}}

\* the bodies /api/leaderboard may answer with: ORDER BY sales DESC LIMIT $3
LeaderboardBodies(people, query) ==
  LET start == parseDateParam(query.start, StartFallback)
      end == parseDateParam(query.end, EndFallback)
      limit == LimitParam(query.limit, 20, 100).n
      groups == LeaderboardGroups(people,
                  LeaderboardSample(people, start, end, parseTextParam(query.salesperson)))
      less == [xy \in groups \X groups |-> NumericLess(xy[2].sales, xy[1].sales)]
  IN {[start |-> start, end |-> end, limit |-> limit, rows |-> o] :
        o \in Orderings(groups, less, limit)}

\* the body of /api/sales-weekly: GROUP BY the week, ORDER BY the week
SalesWeeklyBody(table, people, query) ==
  LET start == parseDateParam(query.start, StartFallback)
      end == parseDateParam(query.end, EndFallback)
      lines == RangeLines(table, people, start, end, SqlNull)
      groups == {LET S == {x \in DOMAIN lines : WeekOf(lines[x].sale_date.s) = week}
                 IN [week |-> week,
                     sales |-> RoundedSum(lines, S, "grand_total"),
                     profit |-> RoundedSum(lines, S, "profit")] :
                   week \in {WeekOf(lines[x].sale_date.s) : x \in DOMAIN lines}}
      less == [xy \in groups \X groups |-> DateKey(xy[1].week) < DateKey(xy[2].week)]
  IN [start |-> start, end |-> end,
      rows |-> CHOOSE o \in Orderings(groups, less, Cardinality(groups)) : TRUE]

\* the body of /api/sales-daily: GROUP BY the day, ORDER BY the day
SalesDailyBody(table, people, query) ==
  LET start == parseDateParam(query.start, StartFallback)
      end == parseDateParam(query.end, EndFallback)
      lines == RangeLines(table, people, start, end, parseTextParam(query.salesperson))
      groups == {LET S == {x \in DOMAIN lines : lines[x].sale_date.s = day}
                 IN [day |-> day,
                     lines |-> Cardinality(S),
                     sales |-> RoundedSum(lines, S, "grand_total"),
                     profit |-> RoundedSum(lines, S, "profit")] :
                   day \in {lines[x].sale_date.s : x \in DOMAIN lines}}
      less == [xy \in groups \X groups |-> DateKey(xy[1].day) < DateKey(xy[2].day)]
  IN [start |-> start, end |-> end,
      rows |-> CHOOSE o \in Orderings(groups, less, Cardinality(groups)) : TRUE]

UnknownLocation == <<"(","u","n","k","n","o","w","n",")">>

\* COALESCE(location, '(unknown)')
LocationOrUnknown(location) ==
  IF location.k = "null" THEN UnknownLocation ELSE location.s

\* the bodies /api/sales-by-location may answer with: ORDER BY sales DESC
SalesByLocationBodies(table, people, query) ==
  LET start == parseDateParam(query.start, StartFallback)
      end == parseDateParam(query.end, EndFallback)
      lines == RangeLines(table, people, start, end, parseTextParam(query.salesperson))
      groups == {LET S == {x \in DOMAIN lines :
                             LocationOrUnknown(lines[x].location) = loc}
                 IN [location |-> loc,
                     sales |-> RoundedSum(lines, S, "grand_total"),
                     profit |-> RoundedSum(lines, S, "profit")] :
                   loc \in {LocationOrUnknown(lines[x].location) : x \in DOMAIN lines}}
      less == [xy \in groups \X groups |-> NumericLess(xy[2].sales, xy[1].sales)]
  IN {[start |-> start, end |-> end, rows |-> o] :
        o \in Orderings(groups, less, Cardinality(groups))}

\* the bodies the route of an endpoint may answer a request with
EndpointBodies(endpoint, table, people, query) ==
  CASE endpoint = "outliers" -> OutliersBodies(table, query)
    [] endpoint = "low-margin" -> LowMarginBodies(table, people, query)
    [] endpoint = "summary" -> {SummaryBody(table, people, query)}
    [] endpoint = "finance-summary" -> {FinanceSummaryBody(table, people, query)}
    [] endpoint = "leaderboard" -> LeaderboardBodies(people, query)
    [] endpoint = "sales-weekly" -> {SalesWeeklyBody(table, people, query)}
    [] endpoint = "sales-daily" -> {SalesDailyBody(table, people, query)}
    [] endpoint = "sales-by-location" -> SalesByLocationBodies(table, people, query)

(***************************************************************************)
(* SpecQuery: a table of sales and one request to an analytics endpoint    *)
(***************************************************************************)
Jan05 == <<"2","0","2","4","-","0","1","-","0","5">>

Jan10 == <<"2","0","2","4","-","0","1","-","1","0">>

Jan31 == <<"2","0","2","4","-","0","1","-","3","1">>

Feb01 == <<"2","0","2","4","-","0","2","-","0","1">>

MainSt == SqlText(<<"M","a","i","n"," ","S","t">>)

Elm == SqlText(<<"E","l","m">>)

QuerySale(id, day, location, who, total, profit, financed, fee, balance, margin) ==
  [sale_id |-> id, sale_date |-> day, location |-> location, salesperson |-> who,
   grand_total |-> total, profit |-> profit, total_finance_amt |-> financed,
   finance_fee |-> fee, finance_balance |-> balance, gross_margin |-> margin]

QuerySales ==
  {QuerySale(<<"S","1">>, SqlDate(Jan05), MainSt, SqlText(<<"A","l","i","c","e"," ","A","N","D"," ","B","o","b">>),
             Dollars(100), Dollars(20), Dollars(90), Dollars(5), Dollars(85), SqlNull),
   QuerySale(<<"S","2">>, SqlDate(Feb01), SqlNull, SqlText(<<"S","a","l","e","s",","," ","S","t","o","r","e"," ","&"," ","B","o","b">>),
             Dollars(300), Dollars(-30), SqlNull, SqlNull, SqlNull, SqlNull),
   QuerySale(<<"S","3">>, SqlDate(Jan31), Elm, SqlText(<<"b","o","b">>),
             Dollars(0), Dollars(5), Dollars(0), Dollars(0), Dollars(7), SqlNum(10 * 1000)),
   QuerySale(<<"S","4">>, SqlDate(Jan31), Elm, SqlText(<<"A","l","i","c","e">>),
             Dollars(100), Dollars(20), Dollars(0), Dollars(0), Dollars(0), SqlNull),
   QuerySale(<<"S","5">>, SqlDate(Jan31), MainSt, SqlNull,
             SqlNaN, SqlNull, SqlNaN, SqlNull, SqlNum(0), SqlNull),
   QuerySale(<<"S","6">>, SqlDate(Jan05), MainSt, SqlText(<<"A","l","i","c","e"," ","a","n","d"," ">>),
             Dollars(80), Dollars(90), Dollars(0), Dollars(0), Dollars(0), SqlNull),
   QuerySale(<<"S","7">>, SqlNull, Elm, SqlText(<<"B","o","b">>),
             Dollars(10), Dollars(1), Dollars(10), Dollars(1), Dollars(9), SqlNull)}

\* one of many ordinary sales: sale i of a table, credited to Al or to Alma,
\* no two of the same amount
FillerSale(i) ==
  QuerySale(<<"F">> \o NatToString(i), SqlDate(Jan10), MainSt,
            SqlText(IF i % 2 = 0 THEN <<"A","l","m","a">> ELSE <<"A","l">>),
            Dollars(100 + i), Dollars(10), Dollars(0), Dollars(0), Dollars(0), SqlNull)

\* sales of an amount far above the ordinary ones
ExtremeSales ==
  {QuerySale(<<"X","1">>, SqlDate(Feb01), MainSt, SqlText(<<"A","l">>),
             Dollars(900), Dollars(90), Dollars(0), Dollars(0), Dollars(0), SqlNull),
   QuerySale(<<"X","2">>, SqlDate(Jan10), Elm, SqlText(<<"A","l"," ","&"," ","B","o">>),
             Dollars(800), Dollars(80), Dollars(0), Dollars(0), Dollars(0), SqlNull)}

\* the table that holds the sales of a set (sale_id is the primary key)
TableOf(sales) == [id \in {sale.sale_id : sale \in sales} |->
                     CHOOSE sale \in sales : sale.sale_id = id]

\* most sample sales in a small table
MaxSales == 2

SmallTables == {TableOf(S) : S \in {S \in SUBSET QuerySales : Cardinality(S) <= MaxSales}}

\* tables around the smallest sample of /api/outliers
LargeTables ==
  {TableOf({FillerSale(i) : i \in 1..fill} \cup extra) :
     fill \in {MinOutlierSample - 2, MinOutlierSample - 1},
     extra \in SUBSET ExtremeSales}

QueryTables == SmallTables \cup LargeTables

\* start and end of the sample requests: absent, a day, or no YYYY-MM-DD
QueryRanges ==
  {<<Null, Null>>,
   <<Str(Jan05), Str(Feb01)>>,
   <<Str(<<"2","0","2","4","-","1","-","5">>), Str(Jan31)>>,
   <<Str(Jan31), Null>>}

QueryFilters ==
  {Null, Str(<<"b","o">>), Str(<<" ","A","L"," ">>), Str(<<"a","l","i","c","e"," ","a","n","d">>), Str(<<"b","_","b">>)}

NoQuery ==
  [start |-> Null, end |-> Null, salesperson |-> Null, limit |-> Null,
   multiplier |-> Null, limit_per |-> Null, limit_total |-> Null]

RangeQueries ==
  {[NoQuery EXCEPT !.start = r[1], !.end = r[2]] : r \in QueryRanges}

FilterQueries ==
  {[query EXCEPT !.salesperson = who] : query \in RangeQueries, who \in QueryFilters}

LimitQueries ==
  {[query EXCEPT !.limit = limit] :
     query \in FilterQueries, limit \in {Null, Str(<<"1">>), Str(<<"0">>)}}

OutlierQueries ==
  {[query EXCEPT !.multiplier = m] : query \in LimitQueries, m \in {Null, Str(<<"0">>)}}

LowMarginQueries ==
  {[query EXCEPT !.limit_per = per, !.limit_total = total] :
     query \in FilterQueries,
     per \in {Null, Str(<<"1">>)},
     total \in {Null, Str(<<"1">>), Str(<<"0">>)}}

InitQuery ==
  /\ db = EmptyDb
  /\ run = [r \in Runs |-> IdleRun]
  /\ pos_sales \in QueryTables
  /\ pos_sales_people = SelectPeople(pos_sales)
  /\ response = NoResponse
  /\ slugged = NoSlug
  /\ tasks = NoTasks
  /\ now = 0
  /\ sub = NoSub

\* one request is answered
Respond(endpoint, query, body) ==
  /\ response' = [endpoint |-> endpoint, query |-> query, body |-> body]
  /\ UNCHANGED <<db, run, pos_sales, pos_sales_people, slugged, tasks, now, sub>>

GetOutliers ==
  /\ response = NoResponse
  /\ \E query \in OutlierQueries :
       \E body \in OutliersBodies(pos_sales, query) :
         Respond("outliers", query, body)

GetLowMargin ==
  /\ response = NoResponse
  /\ \E query \in LowMarginQueries :
       \E body \in LowMarginBodies(pos_sales, pos_sales_people, query) :
         Respond("low-margin", query, body)

GetSummary ==
  /\ response = NoResponse
  /\ \E query \in FilterQueries :
       Respond("summary", query, SummaryBody(pos_sales, pos_sales_people, query))

GetFinanceSummary ==
  /\ response = NoResponse
  /\ \E query \in FilterQueries :
       Respond("finance-summary", query,
               FinanceSummaryBody(pos_sales, pos_sales_people, query))

GetLeaderboard ==
  /\ response = NoResponse
  /\ \E query \in LimitQueries :
       \E body \in LeaderboardBodies(pos_sales_people, query) :
         Respond("leaderboard", query, body)

GetSalesWeekly ==
  /\ response = NoResponse
  /\ \E query \in RangeQueries :
       Respond("sales-weekly", query,
               SalesWeeklyBody(pos_sales, pos_sales_people, query))

GetSalesDaily ==
  /\ response = NoResponse
  /\ \E query \in FilterQueries :
       Respond("sales-daily", query,
               SalesDailyBody(pos_sales, pos_sales_people, query))

GetSalesByLocation ==
  /\ response = NoResponse
  /\ \E query \in FilterQueries :
       \E body \in SalesByLocationBodies(pos_sales, pos_sales_people, query) :
         Respond("sales-by-location", query, body)

NextQuery ==
  \/ GetOutliers
  \/ GetLowMargin
  \/ GetSummary
  \/ GetFinanceSummary
  \/ GetLeaderboard
  \/ GetSalesWeekly
  \/ GetSalesDaily
  \/ GetSalesByLocation

SpecQuery == InitQuery /\ [][NextQuery]_vars

(***************************************************************************)
(* SpecSlug: slugify applied to a text, and then to its own result         *)
(***************************************************************************)
\* longest text given to slugify
MaxSlugLen == 4

\* characters of the texts: a capital, a small letter, a digit, a space, a
\* hyphen, an ampersand and a character the slug drops
SlugChars == {"A", "b", "1", " ", "-", "&", "!"}

SlugTexts == SeqsUpTo(SlugChars, MaxSlugLen)

InitSlug ==
  /\ db = EmptyDb
  /\ run = [r \in Runs |-> IdleRun]
  /\ pos_sales = <<>>
  /\ pos_sales_people = <<>>
  /\ response = NoResponse
  /\ slugged = NoSlug
  /\ tasks = NoTasks
  /\ now = 0
  /\ sub = NoSub

\* slugify(s)
Slugify ==
  /\ ~slugged.called
  /\ \E s \in SlugTexts :
       slugged' = [called |-> TRUE, s |-> s, slug |-> slugify(s),
                   again |-> FALSE, reslug |-> <<>>]
  /\ UNCHANGED <<db, run, pos_sales, pos_sales_people, response, tasks, now, sub>>

\* slugify(slugify(s))
SlugifyAgain ==
  /\ slugged.called
  /\ ~slugged.again
  /\ slugged' = [slugged EXCEPT !.again = TRUE, !.reslug = slugify(slugged.slug)]
  /\ UNCHANGED <<db, run, pos_sales, pos_sales_people, response, tasks, now, sub>>

NextSlug ==
  \/ Slugify
  \/ SlugifyAgain

SpecSlug == InitSlug /\ [][NextSlug]_vars

(***************************************************************************)
(* The second handler of importSalesXlsx.ts (lines 235-337), which commits *)
(* by the number of rows read.  Its sheets are fill copies of row rA, then *)
(* the rows of tail, then more copies of rA.  The locals of the handler    *)
(* are in run[1]; unflushed counts the batch.set calls of the current      *)
(* batch, commits holds the sizes of the batches handed to commit() and    *)
(* invocations counts the invocations so far.                              *)
(***************************************************************************)
\* if (rowCount % 400 === 0)
CommitEvery == 400

\* "to stay under the 500-operation limit"
BatchLimit == 500

\* the invocations of the handler a behaviour holds
MaxInvocations == 2

PathLower == <<"s","a","l","e","s","/","f","e","b",".","x","l","s">>

RowCountPaths == {PathLower, PathSales, PathText}

ShortRowCountSheets ==
  {[fill |-> 0, tail |-> t, more |-> 0] : t \in SeqsUpTo(RowNames, MaxRows)}

LongRowCountSheets ==
  {[fill |-> n, tail |-> t, more |-> m] :
     n \in {CommitEvery - 1, CommitEvery},
     t \in {<<>>, <<"rE">>, <<"rB">>},
     m \in {0, BatchLimit - CommitEvery + 1}}

RowCountSheets == ShortRowCountSheets \cup LongRowCountSheets

\* rows.length
RowCountNumRows(sheet) == sheet.fill + Len(sheet.tail) + sheet.more

\* the name of rows[i - 1]
RowCountRowAt(sheet, i) ==
  IF i <= sheet.fill THEN "rA"
  ELSE IF i <= sheet.fill + Len(sheet.tail) THEN sheet.tail[i - sheet.fill]
  ELSE "rA"

IdleRowCountRun ==
  [pc |-> "idle", filePath |-> <<>>, sheet |-> [fill |-> 0, tail |-> <<>>, more |-> 0],
   batch |-> EmptyBatch, seenStores |-> {}, rowCount |-> 0,
   stop |-> FALSE, threw |-> FALSE, heartbeat |-> FALSE,
   unflushed |-> 0, commits |-> <<>>, queuedRows |-> {}, flushedRows |-> {},
   invocations |-> 0]

\* batch.set(transactionRef, {...}): the document is keyed by salesId as it
\* is and holds no salesId field
RowCountSaleWrite(n, filePath) ==
  [coll |-> "sales_transactions", id |-> n.salesId, merge |-> FALSE,
   data |-> [date |-> n.dateOfSale.s,
             storeId |-> n.storeId,
             storeName |-> n.storeLocation,
             salespeople |-> n.salespeople,
             grandTotal |-> n.grandTotal,
             cost |-> n.cost,
             financeFee |-> n.financeFee,
             profit |-> n.profit,
             sourceFile |-> filePath]]

\* one pass of the loop body for row number i; db.doc() throws for a path
\* with an odd number of segments, as `sales_transactions/A/1` has
RowCountRow(L, i) ==
  LET n == Normalized[RowCountRowAt(L.sheet, i)]
      L1 == [L EXCEPT !.rowCount = @ + 1]
  IN IF n.skip THEN L1
     ELSE
       LET newStore == NewStore(n.storeId, L1.seenStores)
           L2 == IF newStore
                   THEN [L1 EXCEPT !.batch = QueueWrite(@, StoreWrite(n)),
                                   !.seenStores = @ \cup {n.storeId},
                                   !.unflushed = @ + 1]
                   ELSE L1
       IN IF \E k \in 1..Len(n.salesId) : n.salesId[k] = "/"
            THEN [L2 EXCEPT !.threw = TRUE, !.stop = TRUE]
            ELSE [L2 EXCEPT !.batch = QueueWrite(@, RowCountSaleWrite(n, L.filePath)),
                            !.unflushed = @ + 1,
                            !.queuedRows = @ \cup {i},
                            !.stop = (L1.rowCount % CommitEvery = 0)]

RECURSIVE RowCountRows(_, _, _)
RowCountRows(L, lo, hi) ==
  IF lo > hi \/ L.stop THEN L
  ELSE IF lo = hi THEN RowCountRow(L, lo)
  ELSE LET mid == (lo + hi) \div 2
       IN RowCountRows(RowCountRows(L, lo, mid), mid + 1, hi)

\* the handler from the next row to its next await, or to its end
RowCountToAwait(rn) ==
  LET L == RowCountRows([rn EXCEPT !.stop = FALSE], rn.rowCount + 1,
                        RowCountNumRows(rn.sheet))
  IN IF L.threw THEN [L EXCEPT !.pc = "error"]
     ELSE IF L.stop THEN [L EXCEPT !.pc = "commit", !.commits = Append(@, L.unflushed)]
     ELSE IF L.rowCount % CommitEvery # 0
       THEN [L EXCEPT !.pc = "lastcommit", !.commits = Append(@, L.unflushed)]
       ELSE [L EXCEPT !.pc = "done"]

\* if (!filePath.startsWith("sales/")) return; and the test of the suffix
RowCountAccepted(filePath) ==
  StartsWith(filePath, <<"s","a","l","e","s","/">>) /\ IsExcelName(filePath)

\* an object is finalized: the heartbeat write (its failure is caught), the
\* checks of the object name, the download and the parsing
RowCountUpload ==
  /\ run[1].pc = "idle"
  /\ run[1].invocations < MaxInvocations
  /\ \E filePath \in RowCountPaths, sheet \in RowCountSheets, heartbeat \in BOOLEAN :
       /\ RowCountAccepted(filePath) \/ sheet = [fill |-> 0, tail |-> <<>>, more |-> 0]
       /\ run' = [run EXCEPT ![1] =
            IF RowCountAccepted(filePath)
              THEN [IdleRowCountRun EXCEPT !.pc = "loop", !.filePath = filePath,
                                           !.sheet = sheet, !.heartbeat = heartbeat,
                                           !.invocations = run[1].invocations + 1]
              ELSE [IdleRowCountRun EXCEPT !.pc = "skipped", !.filePath = filePath,
                                           !.heartbeat = heartbeat,
                                           !.invocations = run[1].invocations + 1]]
       /\ db' = IF heartbeat
                  THEN [db EXCEPT !.function_triggers =
                          Append(@, [file |-> filePath, status |-> "triggered"])]
                  ELSE db
  /\ UNCHANGED <<pos_sales, pos_sales_people, response, slugged, tasks, now, sub>>

\* the loop runs to its next await, or the handler to its end
RowCountLoop ==
  /\ run[1].pc = "loop"
  /\ run' = [run EXCEPT ![1] = RowCountToAwait(run[1])]
  /\ UNCHANGED <<db, pos_sales, pos_sales_people, response, slugged, tasks, now, sub>>

\* await batch.commit() resolves
RowCountCommitOk ==
  /\ run[1].pc \in {"commit", "lastcommit"}
  /\ db' = CommitWrites(db, run[1].batch)
  /\ run' = [run EXCEPT ![1].pc = IF run[1].pc = "commit" THEN "loop" ELSE "done",
                        ![1].batch = EmptyBatch,
                        ![1].unflushed = 0,
                        ![1].flushedRows = run[1].queuedRows]
  /\ UNCHANGED <<pos_sales, pos_sales_people, response, slugged, tasks, now, sub>>

\* await batch.commit() rejects: nothing catches it, the invocation fails
RowCountCommitFail ==
  /\ run[1].pc \in {"commit", "lastcommit"}
  /\ run' = [run EXCEPT ![1].pc = "error"]
  /\ UNCHANGED <<db, pos_sales, pos_sales_people, response, slugged, tasks, now, sub>>

\* the invocation is over: its locals are gone
RowCountFinish ==
  /\ run[1].pc \in {"done", "skipped", "error"}
  /\ run' = [run EXCEPT ![1] =
                [IdleRowCountRun EXCEPT !.invocations = run[1].invocations]]
  /\ UNCHANGED <<db, pos_sales, pos_sales_people, response, slugged, tasks, now, sub>>

InitRowCount ==
  /\ db = EmptyDb
  /\ run = [r \in Runs |-> IdleRowCountRun]
  /\ pos_sales = <<>>
  /\ pos_sales_people = <<>>
  /\ response = NoResponse
  /\ slugged = NoSlug
  /\ tasks = NoTasks
  /\ now = 0
  /\ sub = NoSub

NextRowCount ==
  \/ RowCountUpload
  \/ RowCountLoop
  \/ RowCountCommitOk
  \/ RowCountCommitFail
  \/ RowCountFinish

SpecRowCount == InitRowCount /\ [][NextRowCount]_vars

(***************************************************************************)
(* The task board of server.ts: the table tasks, POST /api/tasks and       *)
(* PATCH /api/tasks/:id.  now is the clock: a timestamp is the value of    *)
(* the clock when it was taken, and a request takes one tick.  A value of  *)
(* req.body is absent (Null), a string (Str) or a number (Num).            *)
(***************************************************************************)
\* the requests a behaviour holds
MaxRequests == 3

ToUpperChar(c) ==
  IF IsLower(c) THEN UpperChars[CHOOSE i \in 1..Len(LowerChars) : LowerChars[i] = c]
  ELSE c

ToUpperCase(s) == [i \in 1..Len(s) |-> ToUpperChar(s[i])]

TODO == <<"T","O","D","O">>

IN_PROGRESS == <<"I","N","_","P","R","O","G","R","E","S","S">>

DONE == <<"D","O","N","E">>

Timestamp(t) == [k |-> "timestamptz", t |-> t]

parseTaskStatus(v) ==
  IF v.t # "str" \/ v.s = <<>> THEN SqlNull
  ELSE LET t == ToUpperCase(Trim(v.s))
       IN IF t \in {TODO, IN_PROGRESS, DONE} THEN SqlText(t) ELSE SqlNull

parseTaskPriority(v) ==
  IF v.t # "str" \/ v.s = <<>> THEN SqlNull
  ELSE LET t == ToLowerCase(Trim(v.s))
       IN IF t \in {<<"l","o","w">>, <<"m","e","d","i","u","m">>, <<"h","i","g","h">>}
            THEN SqlText(t) ELSE SqlNull

parseTaskDeadline(v) ==
  IF v.t # "str" THEN SqlNull
  ELSE IF IsYmd(Trim(v.s)) THEN SqlDate(Trim(v.s)) ELSE SqlNull

parseIntBody(v) ==
  IF v.t = "num" THEN SqlNum(v.n)
  ELSE IF v.t = "str" /\ v.s # <<>> /\ AllDigits(v.s) THEN SqlNum(DigitsToNat(v.s))
  ELSE SqlNull

parseTaskIdParam(v) ==
  IF v = <<>> \/ ~AllDigits(v) THEN SqlNull
  ELSE IF DigitsToNat(v) > 0 THEN SqlNum(DigitsToNat(v)) ELSE SqlNull

\* typeof v === "string" ? v.trim() : dflt
TrimmedOr(v, dflt) == IF v.t = "str" THEN SqlText(Trim(v.s)) ELSE dflt

Max(a, b) == IF a > b THEN a ELSE b

\* SELECT COALESCE(MAX(sort_index), -1) + 1 FROM tasks WHERE status = $1
RECURSIVE MaxSortIndex(_, _, _)
MaxSortIndex(table, ids, status) ==
  IF ids = {} THEN -1
  ELSE LET id == CHOOSE id \in ids : TRUE
           rest == MaxSortIndex(table, ids \ {id}, status)
       IN IF table[id].status = status THEN Max(table[id].sort_index, rest) ELSE rest

NextSortIndex(table, status) == MaxSortIndex(table, DOMAIN table, status) + 1

\* the texts of the requests
CallBack == <<"C","a","l","l"," ","b","a","c","k">>

TaskTitles == {Null, Str(<<" ">>), Str(CallBack)}

TaskStatuses ==
  {Null, Str(<<"t","o","d","o">>), Str(<<" ","i","n","_","p","r","o","g","r","e","s","s">>),
   Str(DONE), Str(<<"l","a","t","e","r">>)}

TaskSortIndexes == {Null, Num(7)}

TaskDeadlines == {Null, Str(<<>>)}

TaskBodies ==
  [title : TaskTitles, assignee : {Null}, status : TaskStatuses, priority : {Null},
   deadline : TaskDeadlines, sort_index : TaskSortIndexes]

TaskIdParams == {<<"1">>, <<"2">>, <<"0">>}

\* the row POST /api/tasks inserts, or SqlNull when it answers 400
PostedTask(table, body, clock) ==
  LET title == IF body.title.t = "str" THEN Trim(body.title.s) ELSE <<>>
      assignee == IF body.assignee.t = "str" /\ Trim(body.assignee.s) # <<>>
                    THEN Trim(body.assignee.s) ELSE Unassigned
      parsed == parseTaskStatus(body.status)
      status == IF parsed = SqlNull THEN TODO ELSE parsed.s
      priority == IF parseTaskPriority(body.priority) = SqlNull
                    THEN <<"m","e","d","i","u","m">>
                    ELSE parseTaskPriority(body.priority).s
      explicit == parseIntBody(body.sort_index)
  IN IF title = <<>> THEN SqlNull
     ELSE [id |-> Cardinality(DOMAIN table) + 1,
           title |-> title,
           assignee |-> assignee,
           status |-> status,
           priority |-> priority,
           deadline |-> parseTaskDeadline(body.deadline),
           sort_index |-> IF explicit # SqlNull THEN explicit.v
                          ELSE NextSortIndex(table, status),
           responded_at |-> IF status = IN_PROGRESS THEN Timestamp(clock) ELSE SqlNull,
           completed_at |-> IF status = DONE THEN Timestamp(clock) ELSE SqlNull,
           created_at |-> Timestamp(clock),
           updated_at |-> Timestamp(clock)]

\* completed_at = now() for DONE, completed_at = NULL for TODO and
\* IN_PROGRESS, no assignment without a status
StampCompleted(old, status, clock) ==
  IF status = SqlText(DONE) THEN Timestamp(clock)
  ELSE IF status # SqlNull THEN SqlNull
  ELSE old

\* responded_at = COALESCE(responded_at, now()) for IN_PROGRESS
StampResponded(old, status, clock) ==
  IF status = SqlText(IN_PROGRESS) /\ old = SqlNull THEN Timestamp(clock) ELSE old

\* what PATCH /api/tasks/:id does: the status code it answers with and the
\* table after it
PatchedTasks(table, idParam, body, clock) ==
  LET id == parseTaskIdParam(idParam)
      title == TrimmedOr(body.title, SqlNull)
      assignee == TrimmedOr(body.assignee, SqlNull)
      status == parseTaskStatus(body.status)
      priority == parseTaskPriority(body.priority)
      deadline == IF body.deadline = Null \/ body.deadline = Str(<<>>) THEN SqlNull
                  ELSE parseTaskDeadline(body.deadline)
      sortIndex == parseIntBody(body.sort_index)
      fields == {f \in {"title", "assignee", "status", "priority", "deadline", "sort_index"} :
                   CASE f = "title" -> title # SqlNull
                     [] f = "assignee" -> assignee # SqlNull
                     [] f = "status" -> status # SqlNull
                     [] f = "priority" -> priority # SqlNull
                     [] f = "deadline" -> body.deadline # Null
                     [] f = "sort_index" -> sortIndex # SqlNull}
  IN IF id = SqlNull THEN [code |-> 400, table |-> table]
     ELSE IF title # SqlNull /\ title.s = <<>> THEN [code |-> 400, table |-> table]
     ELSE IF body.deadline # Null /\ body.deadline # Str(<<>>) /\ deadline = SqlNull
       THEN [code |-> 400, table |-> table]
     ELSE IF fields = {} THEN [code |-> 400, table |-> table]
     ELSE IF id.v \notin DOMAIN table THEN [code |-> 404, table |-> table]
     ELSE
       LET old == table[id.v]
           row == [id |-> old.id,
                   title |-> IF "title" \in fields THEN title.s ELSE old.title,
                   assignee |-> IF "assignee" \in fields
                                  THEN (IF assignee.s = <<>> THEN Unassigned ELSE assignee.s)
                                  ELSE old.assignee,
                   status |-> IF "status" \in fields THEN status.s ELSE old.status,
                   priority |-> IF "priority" \in fields THEN priority.s ELSE old.priority,
                   deadline |-> IF "deadline" \in fields THEN deadline ELSE old.deadline,
                   sort_index |-> IF "sort_index" \in fields THEN sortIndex.v
                                  ELSE old.sort_index,
                   responded_at |-> StampResponded(old.responded_at, status, clock),
                   completed_at |-> StampCompleted(old.completed_at, status, clock),
                   created_at |-> old.created_at,
                   updated_at |-> Timestamp(clock)]
       IN [code |-> 200, table |-> [table EXCEPT ![id.v] = row]]

\* POST /api/tasks
PostTask ==
  /\ now < MaxRequests
  /\ \E body \in TaskBodies :
       LET row == PostedTask(tasks, body, now + 1)
       IN /\ tasks' = IF row = SqlNull THEN tasks ELSE (row.id :> row) @@ tasks
          /\ response' = [endpoint |-> "POST /api/tasks", body |-> body,
                          code |-> IF row = SqlNull THEN 400 ELSE 201]
  /\ now' = now + 1
  /\ UNCHANGED <<db, run, pos_sales, pos_sales_people, slugged, sub>>

\* PATCH /api/tasks/:id
PatchTask ==
  /\ now < MaxRequests
  /\ \E idParam \in TaskIdParams, body \in TaskBodies :
       LET done == PatchedTasks(tasks, idParam, body, now + 1)
       IN /\ tasks' = done.table
          /\ response' = [endpoint |-> "PATCH /api/tasks/:id", id |-> idParam,
                          body |-> body, code |-> done.code]
  /\ now' = now + 1
  /\ UNCHANGED <<db, run, pos_sales, pos_sales_people, slugged, sub>>

InitTasks ==
  /\ db = EmptyDb
  /\ run = [r \in Runs |-> IdleRun]
  /\ pos_sales = <<>>
  /\ pos_sales_people = <<>>
  /\ response = NoResponse
  /\ slugged = NoSlug
  /\ tasks = NoTasks
  /\ now = 0
  /\ sub = NoSub

NextTasks ==
  \/ PostTask
  \/ PatchTask

SpecTasks == InitTasks /\ [][NextTasks]_vars

(***************************************************************************)
(* subscribeTasks of the task service (unnamed/part_003).  sub holds the   *)
(* locals of one call (stopped, intervalId, localUnsub), where its async   *)
(* functions wait (pc), what the window holds for it (interval: the timer  *)
(* of setInterval is active; listeners: the listeners of                   *)
(* subscribeLocalTasks are registered), the fetches of the polling that    *)
(* are under way, the version of the tasks the caller was given last      *)
(* (shown) and the mode it was told, and for the properties: unsubscribed, *)
(* the number of calls of onTasks and whether one came after the           *)
(* Unsubscribe call.  remote and stored are the versions of the tasks in   *)
(* the backend and in localStorage; other clients and tabs change them.    *)
(***************************************************************************)
\* the calls of onTasks counted
MaxCalls == 2

\* the fetches of the polling under way at a time
MaxPolls == 2

\* the changes made to the tasks of the backend, and to those of localStorage
MaxVersions == 2

\* subscribeTasks(onTasks) up to its return: the health check is under way
Subscribed ==
  [pc |-> "health", stopped |-> FALSE, intervalId |-> FALSE, localUnsub |-> FALSE,
   interval |-> FALSE, listeners |-> FALSE, polls |-> 0,
   remote |-> 0, stored |-> 0, shown |-> "none", mode |-> "none",
   unsubscribed |-> FALSE, calls |-> 0, calledAfter |-> FALSE]

\* onTasks(tasks)
onTasks(s, version) ==
  [s EXCEPT !.shown = version,
            !.calls = IF @ < MaxCalls THEN @ + 1 ELSE @,
            !.calledAfter = @ \/ s.unsubscribed]

\* startLocal(): subscribeLocalTasks calls onTasks, then registers its
\* listeners and returns the function that removes them
startLocal(s) ==
  [onTasks(s, <<"stored", s.stored>>) EXCEPT
     !.mode = "LOCAL_STORAGE", !.pc = "local", !.listeners = TRUE, !.localUnsub = TRUE]

\* startApi after its fetchTasksFromApi() has resolved
AfterFirstFetch(s) ==
  [(IF s.stopped THEN s ELSE onTasks(s, <<"remote", s.remote>>)) EXCEPT
     !.pc = "polling", !.intervalId = TRUE, !.interval = TRUE]

\* the function subscribeTasks returns
Unsubscribe(s) ==
  [s EXCEPT !.stopped = TRUE,
            !.interval = IF s.intervalId THEN FALSE ELSE @,
            !.listeners = IF s.localUnsub THEN FALSE ELSE @,
            !.unsubscribed = TRUE]

\* subscribeTasks is called
SubscribeTasks ==
  /\ sub = NoSub
  /\ sub' = Subscribed
  /\ UNCHANGED <<db, run, pos_sales, pos_sales_people, response, slugged, tasks, now>>

\* await checkPosBackendHealthy() resolves, with true or false
HealthChecked ==
  /\ sub.pc = "health"
  /\ \E ok \in BOOLEAN :
       sub' = IF sub.stopped THEN [sub EXCEPT !.pc = "end"]
              ELSE IF ok THEN [sub EXCEPT !.pc = "fetch", !.mode = "POS_DB"]
              ELSE startLocal(sub)
  /\ UNCHANGED <<db, run, pos_sales, pos_sales_people, response, slugged, tasks, now>>

\* the first fetchTasksFromApi() of startApi resolves
FirstFetchResolves ==
  /\ sub.pc = "fetch"
  /\ sub' = AfterFirstFetch(sub)
  /\ UNCHANGED <<db, run, pos_sales, pos_sales_people, response, slugged, tasks, now>>

\* the first fetchTasksFromApi() of startApi rejects
FirstFetchRejects ==
  /\ sub.pc = "fetch"
  /\ sub' = IF sub.stopped THEN [sub EXCEPT !.pc = "end"] ELSE startLocal(sub)
  /\ UNCHANGED <<db, run, pos_sales, pos_sales_people, response, slugged, tasks, now>>

\* the timer of setInterval fires: a fetch of the polling starts
PollTick ==
  /\ sub.pc = "polling"
  /\ sub.interval
  /\ sub.polls < MaxPolls
  /\ sub' = [sub EXCEPT !.polls = @ + 1]
  /\ UNCHANGED <<db, run, pos_sales, pos_sales_people, response, slugged, tasks, now>>

\* a fetch of the polling resolves or rejects
PollFetched ==
  /\ sub.pc = "polling"
  /\ sub.polls > 0
  /\ \E ok \in BOOLEAN :
       sub' = IF ok /\ ~sub.stopped
                THEN [onTasks(sub, <<"remote", sub.remote>>) EXCEPT !.polls = @ - 1]
                ELSE [sub EXCEPT !.polls = @ - 1]
  /\ UNCHANGED <<db, run, pos_sales, pos_sales_people, response, slugged, tasks, now>>

\* another tab writes the tasks of localStorage: a storage event, which
\* the listener of the subscription answers if it is registered
LocalChange ==
  /\ sub # NoSub
  /\ sub.stored < MaxVersions
  /\ sub' = IF sub.listeners
              THEN onTasks([sub EXCEPT !.stored = @ + 1], <<"stored", sub.stored + 1>>)
              ELSE [sub EXCEPT !.stored = @ + 1]
  /\ UNCHANGED <<db, run, pos_sales, pos_sales_people, response, slugged, tasks, now>>

\* another client changes the tasks of the backend
RemoteChange ==
  /\ sub # NoSub
  /\ sub.remote < MaxVersions
  /\ sub' = [sub EXCEPT !.remote = @ + 1]
  /\ UNCHANGED <<db, run, pos_sales, pos_sales_people, response, slugged, tasks, now>>

\* the caller calls the Unsubscribe function
CallUnsubscribe ==
  /\ sub # NoSub
  /\ ~sub.unsubscribed
  /\ sub' = Unsubscribe(sub)
  /\ UNCHANGED <<db, run, pos_sales, pos_sales_people, response, slugged, tasks, now>>

InitSub ==
  /\ db = EmptyDb
  /\ run = [r \in Runs |-> IdleRun]
  /\ pos_sales = <<>>
  /\ pos_sales_people = <<>>
  /\ response = NoResponse
  /\ slugged = NoSlug
  /\ tasks = NoTasks
  /\ now = 0
  /\ sub = NoSub

NextSub ==
  \/ SubscribeTasks
  \/ HealthChecked
  \/ FirstFetchResolves
  \/ FirstFetchRejects
  \/ PollTick
  \/ PollFetched
  \/ LocalChange
  \/ RemoteChange
  \/ CallUnsubscribe

SpecSub == InitSub /\ [][NextSub]_vars

(***************************************************************************)
(* SpecData: getSalesData of the dashboard (services/dataService.ts).  The  *)
(* same sales are held by the tables of the POS backend and, as the         *)
(* importer writes them, by the collection sales_transactions; one call of  *)
(* getSalesData is answered from the leaderboard of the POS backend, or,    *)
(* when that request fails, from Firestore.  Amounts of the result are in   *)
(* thousandths, as those of the tables.                                     *)
(***************************************************************************)
\* most sales held when getSalesData is called
MaxDataSales == 3

Jan01 == <<"2","0","2","4","-","0","1","-","0","1">>

Jan07 == <<"2","0","2","4","-","0","1","-","0","7">>

Jan08 == <<"2","0","2","4","-","0","1","-","0","8">>

Jan29 == <<"2","0","2","4","-","0","1","-","2","9">>

DataSale(id, day, who, total, profit) ==
  [id |-> id, day |-> day, who |-> who, total |-> total, profit |-> profit]

\* sales of one or two salespeople, on the first day and the last day of a
\* week, the day after it and in a later week
DataSales ==
  {DataSale(<<"S","1">>, Jan05, <<"A","l","i","c","e"," ","A","N","D"," ","B","o","b">>, 100, 20),
   DataSale(<<"S","2">>, Jan07, <<"A","l","i","c","e">>, 100, 20),
   DataSale(<<"S","3">>, Jan01, <<"B","o","b">>, 30, 5),
   DataSale(<<"S","4">>, Jan08, <<"B","o","b">>, 70, 7),
   DataSale(<<"S","5">>, Jan31, <<"A","l"," ","&"," ","B","o">>, 80, 8),
   DataSale(<<"S","6">>, Feb01, <<"S","a","l","e","s",","," ","S","t","o","r","e">>, 60, 6)}

\* the row of pos_sales of a sale
DataPosRow(sale) ==
  QuerySale(sale.id, SqlDate(sale.day), MainSt, SqlText(sale.who),
            Dollars(sale.total), Dollars(sale.profit), SqlNull, SqlNull, SqlNull, SqlNull)

\* the row of the sheet of a sale
DataSheetRow(sale) ==
  [date |-> DateCell(sale.day), loc |-> Str(MainSt.s), person |-> Str(sale.who),
   id |-> Str(sale.id), total |-> Num(sale.total), cost |-> Null, fee |-> Null,
   profit |-> Num(sale.profit)]

\* the documents of sales_transactions after the import of the sales
DataDocs(sales) ==
  LET w == [sale \in sales |-> SaleWrite(NormalizeRow(DataSheetRow(sale)), <<>>)]
  IN [id \in {w[sale].id : sale \in sales} |->
        w[CHOOSE sale \in sales : w[sale].id = id].data]

\* getDateRange(period): the Monday and the Sunday of a week
DataPeriods == {[startDate |-> Jan01, endDate |-> Jan07],
                [startDate |-> Jan29, endDate |-> CivilFromDays(DaysFromCivil(2024, 1, 29) + 6)]}

\* addDaysYmd(ymd, days)
addDaysYmd(ymd, days) ==
  CivilFromDays(DaysFromCivil(DigitsToNat(SubSeq(ymd, 1, 4)),
                              DigitsToNat(SubSeq(ymd, 6, 7)),
                              DigitsToNat(SubSeq(ymd, 9, 10))) + days)

\* Number(v ?? 0) of a value of the leaderboard, then
\* Number.isFinite(x) ? x : 0
FiniteOrZero(x) == IF x.k = "num" THEN x.v ELSE 0

\* the request getSalesData sends to /api/leaderboard
LeaderboardQuery(period) ==
  [NoQuery EXCEPT !.start = Str(period.startDate),
                  !.end = Str(addDaysYmd(period.endDate, 1)),
                  !.limit = Str(<<"2","0">>)]

\* rows.map(...).filter((r) => r.name) of the POS path
PosSalesData(rows) ==
  LET mapped == [i \in 1..Len(rows) |->
                   [name |-> rows[i].salesperson.s,
                    sales |-> FiniteOrZero(rows[i].sales),
                    margin |-> FiniteOrZero(rows[i].profit),
                    itemsSold |-> rows[i].lines]]
  IN SelectSeq(mapped, LAMBDA r : r.name # <<>>)

\* where("date", ">=", startDate), where("date", "<=", endDate): strings
\* YYYY-MM-DD in the order of strings
FirestoreSample(docs, period) ==
  {id \in DOMAIN docs :
     /\ DateKey(docs[id].date) >= DateKey(period.startDate)
     /\ DateKey(docs[id].date) <= DateKey(period.endDate)}

\* transaction.grandTotal || 0
NumberOr0(x) == IF x.nan THEN 0 ELSE x.n * 1000

\* salesByPerson after the forEach over the documents S: each person of a
\* document is credited with its full grandTotal and profit
RECURSIVE SalesByPerson(_, _)
SalesByPerson(docs, S) ==
  IF S = {} THEN <<>>
  ELSE LET id == CHOOSE x \in S : TRUE
           rest == SalesByPerson(docs, S \ {id})
           people == docs[id].salespeople
           times(name) == Cardinality({i \in 1..Len(people) : people[i] = name})
           names == {people[i] : i \in 1..Len(people)}
       IN [name \in DOMAIN rest \cup names |->
             LET old == IF name \in DOMAIN rest THEN rest[name]
                        ELSE [sales |-> 0, margin |-> 0]
             IN [sales |-> old.sales + times(name) * NumberOr0(docs[id].grandTotal),
                 margin |-> old.margin + times(name) * NumberOr0(docs[id].profit)]]

\* the results of the Firestore path: Object.entries(salesByPerson).map(...)
FirestoreSalesData(docs, period) ==
  LET by == SalesByPerson(docs, FirestoreSample(docs, period))
  IN {[name |-> name, sales |-> by[name].sales, margin |-> by[name].margin,
       itemsSold |-> 0] : name \in DOMAIN by}

\* getSalesData answers
RespondData(path, period, rows) ==
  /\ response' = [endpoint |-> "getSalesData", path |-> path, period |-> period,
                  rows |-> rows]
  /\ UNCHANGED <<db, run, pos_sales, pos_sales_people, slugged, tasks, now, sub>>

\* getSalesData(period), answered from /api/leaderboard
GetSalesDataPos ==
  /\ response = NoResponse
  /\ \E period \in DataPeriods :
       \E body \in LeaderboardBodies(pos_sales_people, LeaderboardQuery(period)) :
         LET data == PosSalesData(body.rows)
         IN RespondData("pos", period, {data[i] : i \in 1..Len(data)})

\* getSalesData(period) when fetchLeaderboard throws: the Firestore fallback
GetSalesDataFirestore ==
  /\ response = NoResponse
  /\ \E period \in DataPeriods :
       RespondData("firestore", period, FirestoreSalesData(db.sales_transactions, period))

\* the sales are entered, or the period passes: the next call is made
NextCall ==
  /\ response # NoResponse
  /\ response' = NoResponse
  /\ UNCHANGED <<db, run, pos_sales, pos_sales_people, slugged, tasks, now, sub>>

InitData ==
  /\ \E sales \in {S \in SUBSET DataSales : Cardinality(S) <= MaxDataSales} :
       /\ pos_sales = TableOf({DataPosRow(sale) : sale \in sales})
       /\ db = [EmptyDb EXCEPT !.sales_transactions = DataDocs(sales)]
  /\ run = [r \in Runs |-> IdleRun]
  /\ pos_sales_people = SelectPeople(pos_sales)
  /\ response = NoResponse
  /\ slugged = NoSlug
  /\ tasks = NoTasks
  /\ now = 0
  /\ sub = NoSub

NextData ==
  \/ GetSalesDataPos
  \/ GetSalesDataFirestore
  \/ NextCall

SpecData == InitData /\ [][NextData]_vars

(***************************************************************************)
(* Properties of the import                                                 *)
(***************************************************************************)
RECURSIVE SumSeq(_)
SumSeq(q) == IF q = <<>> THEN 0 ELSE Head(q) + SumSeq(Tail(q))

\* the database a run without a rejected commit leaves, started on database d
RECURSIVE RunOn(_, _)
RunOn(d, rn) ==
  CASE rn.pc = "loop" -> RunOn(d, RunToAwait(rn))
    [] rn.pc = "commit" -> RunOn(CommitWrites(d, rn.batch), Committed(rn))
    [] OTHER -> d

FailureFreeRun(d, filePath, sheet) == RunOn(d, EnterHandler(IdleRun, filePath, sheet))

\* C1: importing the same object (same rows, same name) again leaves the stores,
\* the sale records and the daily aggregates as the first import left them
IdempotentIngestion ==
  \A r \in Runs : run[r].pc = "done" /\ run[r].rerun => db = run[r].base

IdempotentIngestionWitness ==
  /\ run[1].pc = "done"
  /\ run[1].rerun
  /\ run[1].validRowCount >= 2
  /\ run[1].totalWrites >= 3
  /\ DOMAIN db.sales_transactions # {}

\* C2: no batch is committed with more than MAX_BATCH_OPS writes
BatchBound ==
  \A r \in Runs : run[r].pc = "commit" => run[r].batchOps <= MAX_BATCH_OPS

\* C3: when a run ends without error, every write it queued has been committed
\* and its batch is empty; commitBatch commits nothing for an empty batch
FinalFlush ==
  \A r \in Runs :
    /\ run[r].pc = "commit" => run[r].batchOps > 0
    /\ \A i \in 1..Len(run[r].committed) : run[r].committed[i] > 0
    /\ run[r].pc = "done" =>
         /\ run[r].batchOps = 0
         /\ run[r].batch = EmptyBatch
         /\ SumSeq(run[r].committed) = run[r].queued
         /\ \A i \in run[r].queuedRows :
              LET n == Normalized[RowNameAt(run[r].sheet, i)]
              IN /\ n.safeSalesId \in DOMAIN db.sales_transactions
                 /\ n.storeId # <<>> => n.storeId \in DOMAIN db.stores

\* a run that flushed a full batch in the loop and had nothing left for the final
\* flush, its last row being a skipped one
FinalFlushWitness ==
  /\ run[1].pc = "done"
  /\ run[1].committed = <<MAX_BATCH_OPS>>
  /\ run[1].skippedRowCount = 1
  /\ run[1].rowCount = MAX_BATCH_OPS

\* C4: a rejected commit ends the run in error, writes nothing and undoes
\* nothing, and the failed run commits no further batch
BatchFlushFailure ==
  [][\A r \in Runs :
       /\ (run[r].pc = "commit" /\ run'[r].lastCommit = "failed") =>
            /\ run'[r].pc = "error"
            /\ db' = db
            /\ run'[r].committed = run[r].committed
       /\ run[r].pc = "error" =>
            /\ run'[r].pc # "commit"
            /\ run'[r].committed \in {run[r].committed, <<>>}
            /\ (\A q \in Runs \ {r} : run'[q] = run[q]) => db' = db]_vars

\* a run that failed on its second batch
BatchFlushFailureWitness ==
  /\ run[1].pc = "error"
  /\ Len(run[1].committed) = 1
  /\ db # run[1].base

\* C5: once a failed run has been retried to completion, the database is the
\* one a single run without failure would have left
RetryConvergence ==
  \A r \in Runs :
    run[r].pc = "done" /\ run[r].failed =>
      db = FailureFreeRun(run[r].base, run[r].filePath, run[r].sheet)

\* completed after a failure that had left its first batch committed
RetryConvergenceWitness ==
  /\ run[1].pc = "done"
  /\ run[1].failed
  /\ run[1].partial
  /\ Len(run[1].committed) = 2

\* the cell holds no date in an accepted form (a Date, or text MM/DD/YYYY)
LacksDate(cell) ==
  ~ \/ cell.t = "date"
    \/ cell.t = "str" /\ MatchesMDY(Trim(cell.s))

\* the cell holds no text
IsBlank(cell) ==
  \/ cell.t = "null"
  \/ cell.t = "str" /\ Trim(cell.s) = <<>>

LacksRequired == [name \in RowNames |->
  LET row == SampleRow(name)
  IN LacksDate(row.date) \/ IsBlank(row.loc) \/ IsBlank(row.id)]

\* C7: a row without date, store or sale identifier is counted as skipped and
\* queues no write; no row ends the run; at the end processed = valid + skipped
BadRowsSkipped ==
  \A r \in Runs :
    LET bad == {i \in 1..run[r].rowCount : LacksRequired[RowNameAt(run[r].sheet, i)]}
    IN /\ run[r].skippedRowCount = Cardinality(bad)
       /\ run[r].queuedRows = (1..run[r].rowCount) \ bad
       /\ run[r].pc = "error" => run[r].lastCommit = "failed"
       /\ run[r].pc = "done" =>
            /\ run[r].rowCount = NumRows(run[r].sheet)
            /\ run[r].rowCount = run[r].validRowCount + run[r].skippedRowCount

\* a completed run with a skipped row followed by an accepted one
BadRowsSkippedWitness ==
  /\ run[1].pc = "done"
  /\ run[1].sheet.head = <<"rG", "rD">>
  /\ run[1].skippedRowCount = 1
  /\ run[1].queuedRows = {2}

\* C8: (no override is set) a stored sale is never replaced by a record of the
\* same sale identifier with another date
CollisionDetection ==
  [][\A id \in DOMAIN db.sales_transactions :
       db'.sales_transactions[id].salesId = db.sales_transactions[id].salesId
         => db'.sales_transactions[id].date = db.sales_transactions[id].date]_vars

RECURSIVE SumOver(_, _)
SumOver(docs, field) ==
  IF docs = {} THEN 0
  ELSE LET d == CHOOSE x \in docs : TRUE
       IN d[field].n + SumOver(docs \ {d}, field)

\* the daily aggregate of <<storeId, date>> computed from the sale records;
\* gross_margin in hundredths of a percent
RecomputeDaily(d, key) ==
  LET docs == {d.sales_transactions[id] : id \in
                 {x \in DOMAIN d.sales_transactions :
                    /\ d.sales_transactions[x].storeId = key[1]
                    /\ d.sales_transactions[x].date = key[2]}}
      gross == SumOver(docs, "grandTotal")
      profit == SumOver(docs, "profit")
  IN [gross_sales |-> gross,
      cogs |-> SumOver(docs, "cost"),
      finance_fees |-> SumOver(docs, "financeFee"),
      profit |-> profit,
      gross_margin |-> IF gross = 0 THEN 0 ELSE (profit * 10000) \div gross,
      order_count |-> Cardinality({doc.salesId : doc \in docs})]

\* C9: after a completed run the daily aggregate of every <<store, date>> the
\* run touched is the recomputation over the current sale records
AggregatesNeverDrift ==
  \A r \in Runs :
    run[r].pc = "done" =>
      \A i \in run[r].queuedRows :
        LET n == Normalized[RowNameAt(run[r].sheet, i)]
            key == <<n.storeId, n.dateOfSale.s>>
        IN /\ key \in DOMAIN db.daily_aggregates
           /\ db.daily_aggregates[key] = RecomputeDaily(db, key)

\* the database after the import of run a's object followed by that of run b's
SerialOutcome(a, b) ==
  FailureFreeRun(FailureFreeRun(EmptyDb, run[a].filePath, run[a].sheet),
                 run[b].filePath, run[b].sheet)

\* C6: two imports run at the same time leave the database that the two
\* imports run one after the other, in one of the two orders, leave
ConcurrentIngestion ==
  run[1].pc = "done" /\ run[2].pc = "done"
    => db \in {SerialOutcome(1, 2), SerialOutcome(2, 1)}

MoneyFields ==
  {<<"total", "grandTotal">>, <<"cost", "cost">>,
   <<"fee", "financeFee">>, <<"profit", "profit">>}

\* the cell is missing, null, empty, or a text that is no number
NotNumeric(cell) ==
  \/ IsBlank(cell)
  \/ cell.t = "str" /\ JsNumber(cell).nan

\* C18: every monetary field of every stored sale record is a finite number
\* (neither NaN nor Infinity), and a cell that is missing, null, empty or not
\* numeric is written as 0
NumericCoercion ==
  /\ \A id \in DOMAIN db.sales_transactions :
       \A f \in MoneyFields :
         LET v == db.sales_transactions[id][f[2]]
         IN ~v.nan /\ ~v.inf
  /\ \A r \in Runs :
       \A i \in run[r].queuedRows :
         LET name == RowNameAt(run[r].sheet, i)
         IN \A f \in MoneyFields :
              NotNumeric(SampleRow(name)[f[1]]) => Normalized[name][f[2]] = JsNum(0)

\* C19: no stored sale record carries an empty salesperson name, and an
\* accepted row whose Sales Person cell is blank is written with the one
\* salesperson "Unassigned"
SalespersonDefault ==
  /\ \A id \in DOMAIN db.sales_transactions :
       \A k \in 1..Len(db.sales_transactions[id].salespeople) :
         db.sales_transactions[id].salespeople[k] # <<>>
  /\ \A r \in Runs :
       \A i \in run[r].queuedRows :
         LET name == RowNameAt(run[r].sheet, i)
         IN IsBlank(SampleRow(name).person)
              => Normalized[name].salespeople = <<Unassigned>>

\* the sale identifier of a row: the text of the Sales# cell, trimmed
RowSalesId(name) == Trim(CellToString(SampleRow(name).id))

HasSlash(id) == \E k \in 1..Len(id) : id[k] = "/"

\* key is id with every "/" replaced by "-"
IsRewriteOf(key, id) ==
  /\ Len(key) = Len(id)
  /\ \A k \in 1..Len(id) : key[k] = (IF id[k] = "/" THEN "-" ELSE id[k])

\* C20: an accepted row is written under its sale identifier with every "/"
\* replaced by "-", the record keeps the identifier as it was read, a warning
\* is logged for exactly the rows whose identifier holds a "/", such a row
\* is not a reason for the run to fail, and a completed run has stored a
\* record under the rewritten key
StorageKeyRewrite ==
  \A r \in Runs :
    /\ \A i \in run[r].queuedRows :
         LET name == RowNameAt(run[r].sheet, i)
             id == RowSalesId(name)
             w == SaleWrite(Normalized[name], run[r].filePath)
         IN /\ IsRewriteOf(w.id, id)
            /\ w.data.salesId = id
            /\ (i \in run[r].warned) = HasSlash(id)
            /\ run[r].pc = "done" =>
                 /\ w.id \in DOMAIN db.sales_transactions
                 /\ IsRewriteOf(w.id, db.sales_transactions[w.id].salesId)
    /\ run[r].warned \subseteq run[r].queuedRows
    /\ run[r].pc = "error" => run[r].lastCommit = "failed"

\* a completed run that has stored a row whose identifier holds a "/" and a
\* row whose identifier holds none
StorageKeyRewriteWitness ==
  /\ run[1].pc = "done"
  /\ run[1].sheet.head = <<"rC", "rA">>
  /\ run[1].warned = {1}
  /\ <<"A","-","1">> \in DOMAIN db.sales_transactions
  /\ db.sales_transactions[<<"A","-","1">>].salesId = <<"A","/","1">>
  /\ <<"S","1">> \in DOMAIN db.sales_transactions

(***************************************************************************)
(* Properties of the split view                                             *)
(***************************************************************************)
\* the participants of a sale: the pieces of the salesperson text, trimmed,
\* the empty ones dropped
Participants(sale) ==
  LET pieces == base(sale).people
      trimmed == [i \in 1..Len(pieces) |-> Trim(pieces[i])]
  IN SelectSeq(trimmed, LAMBDA t : t # <<>>)

\* the amount with NULL and NaN taken as 0
CoercedAmount(x) == IF x.k = "num" THEN x.v ELSE 0

SplitFields ==
  {<<"grand_total", "grand_total_split">>,
   <<"profit", "profit_split">>,
   <<"total_finance_amt", "total_finance_amt_split">>,
   <<"finance_fee", "finance_fee_split">>,
   <<"finance_balance", "finance_balance_split">>}

RECURSIVE SumSplit(_, _)
SumSplit(rows, field) ==
  IF rows = <<>> THEN 0 ELSE Head(rows)[field].v + SumSplit(Tail(rows), field)

Abs(x) == IF x < 0 THEN -x ELSE x

\* C10: a sale with n participants has exactly n rows in the view, one per
\* participant, every amount divided by n, and the split amounts of a column
\* add up to the coerced amount of the sale (to the rounding of the division)
SplitConservation ==
  \A id \in DOMAIN pos_sales_people :
    LET sale == pos_sales[id]
        names == Participants(sale)
        n == Len(names)
        rows == pos_sales_people[id]
    IN n >= 1 =>
         /\ Len(rows) = n
         /\ \A i \in 1..Len(rows) :
              /\ rows[i].salesperson = SqlText(names[i])
              /\ \A f \in SplitFields : rows[i][f[2]].k = "num"
         /\ \A f \in SplitFields :
              Abs(SumSplit(rows, f[2]) - CoercedAmount(sale[f[1]])) < n

(***************************************************************************)
(* Properties of the analytics endpoints                                    *)
(***************************************************************************)
\* the day of a YYYY-MM-DD text, counted from 1970-01-01
DayOf(s) ==
  DaysFromCivil(DigitsToNat(SubSeq(s, 1, 4)), DigitsToNat(SubSeq(s, 6, 7)),
                DigitsToNat(SubSeq(s, 9, 10)))

\* the sales of the table dated on start, or after start and before end,
\* and not on end
SalesWithin(table, start, end) ==
  LET ids == {id \in DOMAIN table :
                /\ table[id].sale_date.k = "date"
                /\ DayOf(table[id].sale_date.s) >= DayOf(start)
                /\ DayOf(table[id].sale_date.s) < DayOf(end)}
  IN [id \in ids |-> table[id]]

\* C11: the answer of every endpoint to a request with start and end is the
\* answer it gives, asked without start and end, over the sales dated from
\* start on and before end: a sale dated on start counts, one dated on end
\* does not
RangeSemantics ==
  response.endpoint # "none" =>
    LET query == response.query
        start == parseDateParam(query.start, StartFallback)
        end == parseDateParam(query.end, EndFallback)
        within == SalesWithin(pos_sales, start, end)
        people == [id \in DOMAIN within |-> pos_sales_people[id]]
        open == [query EXCEPT !.start = Null, !.end = Null]
    IN \E body \in EndpointBodies(response.endpoint, within, people, open) :
         response.body = [body EXCEPT !.start = start, !.end = end]

\* /api/summary has answered a request for the days from 2024-01-05 to
\* 2024-02-01 over a sale dated 2024-01-05 and a sale dated 2024-02-01, and
\* has counted one sale
RangeSemanticsWitness ==
  /\ response.endpoint = "summary"
  /\ response.query.start = Str(Jan05)
  /\ response.query.end = Str(Feb01)
  /\ response.query.salesperson = Null
  /\ DOMAIN pos_sales = {<<"S","1">>, <<"S","2">>}
  /\ pos_sales[<<"S","1">>].sale_date = SqlDate(Jan05)
  /\ pos_sales[<<"S","2">>].sale_date = SqlDate(Feb01)
  /\ response.body.lines = 1
  /\ response.body.sales = Dollars(100)

\* what a request to /api/outliers asks for: the sales of the range that
\* match the salesperson parameter, the limit, and which of the sales lie
\* above Q3 + multiplier * (Q3 - Q1)
OutlierRequest(table, query) ==
  LET sample == OutlierSample(table, parseDateParam(query.start, StartFallback),
                              parseDateParam(query.end, EndFallback),
                              parseTextParam(query.salesperson))
      val == [id \in sample |-> CoerceNumeric(table[id].grand_total)]
      hi == HighThreshold(PercentileCont(sample, val, 1),
                          PercentileCont(sample, val, 3),
                          MultiplierParam(query.multiplier))
  IN [sample |-> sample,
      limit |-> LimitParam(query.limit, 25, 200).n,
      above |-> {id \in sample : AboveThreshold(val[id], hi)}]

\* the sales of the rows of a body
RowIds(body) == {body.rows[i].sale_id : i \in 1..Len(body.rows)}

\* C12: over fewer than 20 sales /api/outliers returns no row, total_count 0
\* and no threshold; over 20 sales or more it returns only sales above
\* Q3 + multiplier * (Q3 - Q1), and all of them unless the limit is reached
OutlierMinimumSample ==
  response.endpoint = "outliers" =>
    LET req == OutlierRequest(pos_sales, response.query)
        body == response.body
    IN IF Cardinality(req.sample) < MinOutlierSample
         THEN /\ body.rows = <<>>
              /\ body.total_count = 0
              /\ body.threshold_high = SqlNull
         ELSE /\ RowIds(body) \subseteq req.above
              /\ RowIds(body) = req.above \/ Len(body.rows) = req.limit

\* /api/outliers has answered with no row over 19 sales, one of them far
\* above the others
OutlierMinimumSampleWitness ==
  /\ response.endpoint = "outliers"
  /\ response.query.salesperson = Null
  /\ response.query.limit = Null
  /\ Cardinality(OutlierRequest(pos_sales, response.query).sample) = MinOutlierSample - 1
  /\ <<"X","2">> \in OutlierRequest(pos_sales, response.query).above
  /\ response.body.rows = <<>>
  /\ response.body.threshold_high = SqlNull

\* C13: the rows of /api/outliers are sales above the threshold, in
\* descending order of grand_total, at most limit of them, and total_count
\* is the number of all the sales above the threshold
OutlierPageAndCount ==
  response.endpoint = "outliers" =>
    LET req == OutlierRequest(pos_sales, response.query)
        flagged == IF Cardinality(req.sample) < MinOutlierSample THEN {} ELSE req.above
        body == response.body
    IN /\ RowIds(body) \subseteq flagged
       /\ \A i \in 1..(Len(body.rows) - 1) :
            ~NumericLess(body.rows[i].grand_total, body.rows[i + 1].grand_total)
       /\ Len(body.rows) <= req.limit
       /\ body.total_count = Cardinality(flagged)
       /\ body.total_count >= Len(body.rows)

\* C14: no row of /api/low-margin has a grand_total of 0, whatever the
\* stored gross_margin of its sale; the margin_pct of every row is
\* profit / grand_total * 100 and lies within [-100, 100]
LowMarginZeroGuard ==
  response.endpoint = "low-margin" =>
    \A i \in 1..Len(response.body.rows) :
      LET r == response.body.rows[i]
      IN /\ r.grand_total.k = "num"
         /\ r.grand_total.v # 0
         /\ r.margin_pct.k = "num"
         /\ r.margin_pct.v = RoundDiv(r.profit.v * 100 * 100, r.grand_total.v) * 10
         /\ r.margin_pct.v >= -100 * 1000
         /\ r.margin_pct.v <= 100 * 1000

\* what a request to /api/low-margin asks for: the rows that can be ranked
\* and the two limits
LowMarginRequest(table, people, query) ==
  LET sample == LowMarginSample(people, parseDateParam(query.start, StartFallback),
                                parseDateParam(query.end, EndFallback),
                                parseTextParam(query.salesperson))
      row == [key \in sample |-> LowMarginRow(table, people, key)]
  IN [rows |-> {row[key] : key \in {k \in sample : MarginInBounds(row[k].margin_pct)}},
      limitPer |-> LimitParam(query.limit_per, 5, 50).n,
      limitTotal |-> LimitParam(query.limit_total, 200, 2000).n]

Min(a, b) == IF a < b THEN a ELSE b

RECURSIVE SumOfSet(_, _)
SumOfSet(S, val) ==
  IF S = {} THEN 0
  ELSE LET x == CHOOSE x \in S : TRUE
       IN val[x] + SumOfSet(S \ {x}, val)

\* C15: /api/low-margin keeps at most limit_per rows of a salesperson, those
\* of the lowest margin, of equal margins the lower profit first and then
\* the higher grand_total; it returns at most limit_total rows, in that
\* order, and total_count is the number of rows kept before that cap
LowMarginSelection ==
  response.endpoint = "low-margin" =>
    LET req == LowMarginRequest(pos_sales, pos_sales_people, response.query)
        rows == response.body.rows
        names == {r.salesperson : r \in req.rows}
        of == [name \in names |-> {r \in req.rows : r.salesperson = name}]
        kept == SumOfSet(names, [name \in names |->
                                   Min(req.limitPer, Cardinality(of[name]))])
    IN /\ SeqRange(rows) \subseteq req.rows
       /\ \A name \in names :
            Cardinality({i \in 1..Len(rows) : rows[i].salesperson = name})
              <= req.limitPer
       /\ Len(rows) <= req.limitTotal
       /\ \A i \in 1..(Len(rows) - 1) : ~LowMarginBefore(rows[i + 1], rows[i])
       /\ response.body.total_count = kept
       /\ Len(rows) = kept =>
            \A r \in SeqRange(rows) :
              \A c \in of[r.salesperson] \ SeqRange(rows) : ~LowMarginBefore(c, r)

\* the rows of the view a request to /api/leaderboard asks to group
LeaderboardRequest(people, query) ==
  LET start == parseDateParam(query.start, StartFallback)
      end == parseDateParam(query.end, EndFallback)
      q == parseTextParam(query.salesperson)
  IN {key \in PeopleKeys(people) :
        LET p == PeopleRow(people, key)
        IN /\ p.sale_date.k = "date"
           /\ DayOf(p.sale_date.s) >= DayOf(start)
           /\ DayOf(p.sale_date.s) < DayOf(end)
           /\ p.salesperson.k = "text"
           /\ p.salesperson.s # <<>>
           /\ p.salesperson.s # SentinelName
           /\ OptionalFilter(p.salesperson, q)}

Alice == SqlText(<<"A","l","i","c","e">>)

Bob == SqlText(<<"B","o","b">>)

\* C16: /api/leaderboard returns one row per salesperson of the split view
\* in the range, none for 'Sales, Store' or for a name that is empty or
\* NULL, each with the lines, sales and profit of the person's split rows
\* summed, in descending order of sales, at most limit rows, the persons of
\* the highest sales; for the one sale of 100 of 'Alice AND Bob' it returns
\* Alice and Bob with sales 50 each
Leaderboard ==
  response.endpoint = "leaderboard" =>
    LET keys == LeaderboardRequest(pos_sales_people, response.query)
        val == [key \in keys |-> PeopleRow(pos_sales_people, key)]
        names == {val[key].salesperson : key \in keys}
        of == [name \in names |-> {key \in keys : val[key].salesperson = name}]
        total == [name \in names |->
                   [salesperson |-> name,
                    lines |-> Cardinality(of[name]),
                    sales |-> Round2(SqlSum(ColumnValues(of[name],
                                [key \in of[name] |-> val[key].grand_total_split]))),
                    profit |-> Round2(SqlSum(ColumnValues(of[name],
                                [key \in of[name] |->
                                   CoerceNumeric(val[key].profit_split)])))]]
        rows == response.body.rows
        limit == LimitParam(response.query.limit, 20, 100).n
    IN /\ \A i \in 1..Len(rows) :
            /\ rows[i].salesperson \in names
            /\ rows[i] = total[rows[i].salesperson]
            /\ \A j \in 1..Len(rows) : rows[j].salesperson = rows[i].salesperson => i = j
       /\ \A i \in 1..(Len(rows) - 1) : ~NumericLess(rows[i].sales, rows[i + 1].sales)
       /\ Len(rows) <= limit
       /\ Len(rows) = Min(limit, Cardinality(names))
       /\ \A name \in names \ {rows[i].salesperson : i \in 1..Len(rows)} :
            \A i \in 1..Len(rows) : ~NumericLess(rows[i].sales, total[name].sales)
       /\ (/\ DOMAIN pos_sales = {<<"S","1">>}
           /\ response.query.start = Str(Jan05)
           /\ response.query.end = Str(Feb01)
           /\ response.query.salesperson = Null
           /\ response.query.limit = Null)
            => /\ Len(rows) = 2
               /\ {rows[1].salesperson, rows[2].salesperson} = {Alice, Bob}
               /\ rows[1].sales = Dollars(50)
               /\ rows[2].sales = Dollars(50)

\* /api/leaderboard has answered over the sale of 100 of 'Alice AND Bob' and
\* a sale of 'Sales, Store & Bob' with a row for Bob and a row for Alice
LeaderboardWitness ==
  /\ response.endpoint = "leaderboard"
  /\ DOMAIN pos_sales = {<<"S","1">>, <<"S","2">>}
  /\ response.query.start = Null
  /\ response.query.end = Null
  /\ response.query.salesperson = Null
  /\ response.query.limit = Null
  /\ Len(response.body.rows) = 2
  /\ response.body.rows[1] =
       [salesperson |-> Bob, lines |-> 2, sales |-> Dollars(200), profit |-> Dollars(-5)]
  /\ response.body.rows[2] =
       [salesperson |-> Alice, lines |-> 1, sales |-> Dollars(50), profit |-> Dollars(10)]

\* text contains q, letters compared without their case
ContainsText(text, q) ==
  \E k \in 1..(Len(text) - Len(q) + 1) :
    ToLowerCase(SubSeq(text, k, k + Len(q) - 1)) = ToLowerCase(q)

\* the rows of the split view whose salesperson contains q, as a table of
\* their own: each row with its one salesperson and its split amounts
SplitRowsContaining(table, people, q) ==
  LET keys == {key \in PeopleKeys(people) :
                 /\ PeopleRow(people, key).salesperson.k = "text"
                 /\ ContainsText(PeopleRow(people, key).salesperson.s, q)}
  IN [key \in keys |->
       LET p == PeopleRow(people, key)
       IN [sale_id |-> p.sale_id, sale_date |-> p.sale_date,
           location |-> p.location, salesperson |-> p.salesperson,
           grand_total |-> p.grand_total_split, profit |-> p.profit_split,
           total_finance_amt |-> p.total_finance_amt_split,
           finance_fee |-> p.finance_fee_split,
           finance_balance |-> p.finance_balance_split,
           gross_margin |-> table[key[1]].gross_margin]]

FilterEndpoints ==
  {"summary", "finance-summary", "leaderboard", "sales-daily",
   "sales-by-location", "outliers", "low-margin"}

\* C17: the answer of an endpoint to a request with a salesperson parameter
\* is the answer it gives, asked without the parameter, over the rows of the
\* split view whose salesperson contains the text of the parameter, letters
\* compared without their case
SalespersonFilter ==
  (/\ response.endpoint \in FilterEndpoints
   /\ parseTextParam(response.query.salesperson) # SqlNull) =>
    LET selected == SplitRowsContaining(pos_sales, pos_sales_people,
                      parseTextParam(response.query.salesperson).s)
        unfiltered == [response.query EXCEPT !.salesperson = Null]
    IN response.body \in EndpointBodies(response.endpoint, selected,
                                        SelectPeople(selected), unfiltered)

(***************************************************************************)
(* Properties of slugify                                                    *)
(***************************************************************************)
\* s with its small letters made capitals and its capitals made small
RECURSIVE SwapCase(_)
SwapCase(s) ==
  IF s = <<>> THEN <<>>
  ELSE LET c == Head(s)
           d == IF IsUpper(c) THEN ToLowerChar(c)
                ELSE IF IsLower(c)
                  THEN UpperChars[CHOOSE i \in 1..Len(LowerChars) : LowerChars[i] = c]
                  ELSE c
       IN <<d>> \o SwapCase(Tail(s))

\* s with every space and every hyphen written twice
RECURSIVE StretchRuns(_)
StretchRuns(s) ==
  IF s = <<>> THEN <<>>
  ELSE (IF Head(s) \in {" ", "-"} THEN <<Head(s), Head(s)>> ELSE <<Head(s)>>)
         \o StretchRuns(Tail(s))

\* C21: the result of slugify holds only small letters, digits and hyphens,
\* no hyphen at either end and no two hyphens in a row; the same text in
\* another letter case, within spaces, or with longer runs of spaces and
\* hyphens has the same slug; slugify of a slug is that slug
SlugFunction ==
  slugged.called =>
    LET s == slugged.s
        slug == slugged.slug
    IN /\ \A i \in 1..Len(slug) : IsLower(slug[i]) \/ IsDigit(slug[i]) \/ slug[i] = "-"
       /\ slug # <<>> => slug[1] # "-" /\ slug[Len(slug)] # "-"
       /\ \A i \in 1..(Len(slug) - 1) : ~(slug[i] = "-" /\ slug[i + 1] = "-")
       /\ slugify(s) = slug
       /\ slugify(SwapCase(s)) = slug
       /\ slugify(<<" ">> \o s \o <<" ", " ">>) = slug
       /\ slugify(StretchRuns(s)) = slug
       /\ slugged.again => slugged.reslug = slug

\* slugify has been applied to 'A -&' and then to the result, 'a-and'
SlugFunctionWitness ==
  /\ slugged.called
  /\ slugged.again
  /\ slugged.s = <<"A", " ", "-", "&">>
  /\ slugged.slug = <<"a", "-", "a", "n", "d">>
  /\ slugged.reslug = <<"a", "-", "a", "n", "d">>

\* the rows 1..rowCount the loop of invocation r has accepted
AcceptedRows(r) ==
  {i \in 1..run[r].rowCount : ~Normalized[RowNameAt(run[r].sheet, i)].skip}

\* the slug of the store of row i
SlugOfRow(r, i) == Normalized[RowNameAt(run[r].sheet, i)].storeId

\* C22: within one run the Store document of a slug is queued exactly once,
\* by the first accepted row of that slug and just before the sale write of
\* that row, in the same batch; no other row queues a store write (a row
\* whose slug is empty has no Store document and queues none)
StoreUpsertOnce ==
  \A r \in Runs :
    run[r].pc \in {"loop", "commit", "done", "error"} =>
      LET ops == run[r].ops
          rows == AcceptedRows(r)
          stores == {k \in 1..Len(ops) : ops[k].coll = "stores"}
          slugs == {SlugOfRow(r, i) : i \in rows} \ {<<>>}
      IN /\ \A g \in slugs :
              LET first == CHOOSE i \in rows :
                             /\ SlugOfRow(r, i) = g
                             /\ \A j \in rows : SlugOfRow(r, j) = g => i <= j
                  of == {k \in stores : ops[k].id = g}
              IN /\ Cardinality(of) = 1
                 /\ \A k \in of :
                      /\ ops[k].row = first
                      /\ k < Len(ops)
                      /\ ops[k + 1].coll = "sales_transactions"
                      /\ ops[k + 1].row = first
                      /\ ops[k + 1].batch = ops[k].batch
         /\ \A k \in stores : ops[k].id \in slugs

\* a run has imported two rows of the store 'main-st', written 'Main St' and
\* ' main  st ': one store write, then the sale writes of the two rows
StoreUpsertOnceWitness ==
  /\ run[1].pc = "done"
  /\ run[1].sheet = [head |-> <<"rA", "rB">>, fill |-> 0, tail |-> <<>>]
  /\ Len(run[1].ops) = 3
  /\ run[1].ops[1].coll = "stores"
  /\ run[1].ops[1].id = <<"m","a","i","n","-","s","t">>
  /\ run[1].ops[2].coll = "sales_transactions"
  /\ run[1].ops[3].coll = "sales_transactions"
  /\ run[1].ops[3].row = 2

(***************************************************************************)
(* Properties of the handler that commits by the number of rows            *)
(***************************************************************************)
\* C23: when a run of the handler that commits every 400 rows ends without
\* error, every write queued for an accepted row has been committed: no
\* write is left in the batch and the document of every accepted row is in
\* the database
RowCountLastBatch ==
  run[1].pc = "done" =>
    /\ run[1].unflushed = 0
    /\ run[1].flushedRows = run[1].queuedRows
    /\ \A i \in run[1].queuedRows :
         Normalized[RowCountRowAt(run[1].sheet, i)].salesId
           \in DOMAIN db.sales_transactions

\* C24: no batch the handler that commits every 400 rows hands to commit()
\* holds more than 500 operations
RowCountBatchSize ==
  \A k \in 1..Len(run[1].commits) : run[1].commits[k] <= BatchLimit

\* C25: two accepted rows of a run with different Sales# are written under
\* different document keys, so that when the run is complete the record of
\* each of them is in the database
DistinctStorageKeys ==
  \A r \in Runs :
    run[r].pc \in {"loop", "commit", "done", "error"} =>
      LET n == [i \in run[r].queuedRows |-> Normalized[RowNameAt(run[r].sheet, i)]]
      IN /\ \A i, j \in run[r].queuedRows :
              n[i].salesId # n[j].salesId => n[i].safeSalesId # n[j].safeSalesId
         /\ run[r].pc = "done" =>
              \A i \in run[r].queuedRows :
                \E id \in DOMAIN db.sales_transactions :
                  db.sales_transactions[id].salesId = n[i].salesId

\* C26: at every moment, after a commit and after a failed one, every sale
\* record of the database has a storeId that is not empty and that is the
\* key of a Store document of the database
ReferentialIntegrity ==
  \A id \in DOMAIN db.sales_transactions :
    /\ db.sales_transactions[id].storeId # <<>>
    /\ db.sales_transactions[id].storeId \in DOMAIN db.stores

\* C27: totalWrites is at every moment the number of batch.set calls that
\* went into the batches committed so far, and when the import is complete
\* it is validRows + storesTouched
WriteAccounting ==
  \A r \in Runs :
    run[r].pc \in {"loop", "commit", "done", "error"} =>
      LET ops == run[r].ops
          flushed == {k \in 1..Len(ops) : ops[k].batch <= Len(run[r].committed)}
      IN /\ run[r].totalWrites = Cardinality(flushed)
         /\ run[r].pc = "done" =>
              /\ run[r].totalWrites = Len(ops)
              /\ run[r].totalWrites =
                   run[r].validRowCount + Cardinality(run[r].seenStores)

\* an import of 450 rows of two stores is complete: a batch of 450 writes and
\* a batch of 2 have been committed and totalWrites is 452
WriteAccountingWitness ==
  /\ run[1].pc = "done"
  /\ run[1].sheet = [head |-> <<>>, fill |-> MAX_BATCH_OPS - 1, tail |-> <<"rC">>]
  /\ run[1].committed = <<MAX_BATCH_OPS, 2>>
  /\ run[1].validRowCount = MAX_BATCH_OPS
  /\ Cardinality(run[1].seenStores) = 2
  /\ run[1].totalWrites = MAX_BATCH_OPS + 2

(***************************************************************************)
(* Properties of the task board                                             *)
(***************************************************************************)
\* C28: after every POST and PATCH a task has completed_at if and only if
\* its status is DONE; a PATCH does not change a responded_at that is set;
\* a PATCH that leaves the status of a task as it was leaves its
\* completed_at and its responded_at as they were
TaskCompletionStamp ==
  [][/\ \A id \in DOMAIN tasks' :
          (tasks'[id].completed_at # SqlNull) <=> (tasks'[id].status = DONE)
     /\ response'.endpoint = "PATCH /api/tasks/:id" =>
          \A id \in DOMAIN tasks :
            /\ tasks[id].responded_at # SqlNull =>
                 tasks'[id].responded_at = tasks[id].responded_at
            /\ tasks'[id].status = tasks[id].status =>
                 /\ tasks'[id].completed_at = tasks[id].completed_at
                 /\ tasks'[id].responded_at = tasks[id].responded_at]_vars

(***************************************************************************)
(* Properties of subscribeTasks                                             *)
(***************************************************************************)
\* C29: once the Unsubscribe function of a subscription has been called,
\* onTasks is not called again, and no timer of the polling and no listener
\* of the subscription is active, wherever the health check and the first
\* fetch stood when it was called
SubscriptionShutdown ==
  (sub # NoSub /\ sub.unsubscribed) =>
    /\ ~sub.calledAfter
    /\ ~sub.interval
    /\ ~sub.listeners

(***************************************************************************)
(* Properties of getSalesData                                              *)
(***************************************************************************)
\* sales and margin of each salesperson of a result
PersonTotals(rows) == {[name |-> r.name, sales |-> r.sales, margin |-> r.margin] : r \in rows}

\* the sales of a period: the days from startDate to endDate
PeriodSales(table, period) ==
  {id \in DOMAIN table :
     /\ DateKey(table[id].sale_date.s) >= DateKey(period.startDate)
     /\ DateKey(table[id].sale_date.s) <= DateKey(period.endDate)}

RECURSIVE SumOf(_, _)
SumOf(f, S) ==
  IF S = {} THEN 0
  ELSE LET x == CHOOSE y \in S : TRUE IN f[x] + SumOf(f, S \ {x})

\* C30: data-path equivalence.  Whichever path answers getSalesData, the
\* sales and the margin of each salesperson are those the other path gives
\* for the same sales and the same period, and the sales of the salespeople
\* of a result add up to the grand totals of the sales of the period (so
\* those of a sale of several people add up to its grand total).
DataPathEquivalence ==
  response.endpoint = "getSalesData" =>
    LET period == response.period
        pos == {PersonTotals({PosSalesData(body.rows)[i] : i \in 1..Len(body.rows)}) :
                  body \in LeaderboardBodies(pos_sales_people, LeaderboardQuery(period))}
        firestore == PersonTotals(FirestoreSalesData(db.sales_transactions, period))
        S == PeriodSales(pos_sales, period)
    IN /\ PersonTotals(response.rows) \in pos
       /\ PersonTotals(response.rows) = firestore
       /\ SumOf([r \in response.rows |-> r.sales], response.rows)
            = SumOf([id \in S |-> pos_sales[id].grand_total.v], S)

====
